---- MODULE Spec2Model ----
(***************************************************************************)
(* State-machine model of the tactico_ai video analysis backend.           *)
(*                                                                         *)
(* Each component of the pipeline is a small state machine of its own,     *)
(* with its own variables and its own specification:                       *)
(*   SpecVT    ViewTransformer (construction, add_transformed_position)    *)
(*   SpecCam   CameraMovementEstimator.get_camera_movement                 *)
(*   SpecPoss  the ball-possession loop and the analysis summary           *)
(*   SpecSave  persistence of tracked positions (both pipelines)           *)
(*   SpecRead  utils.read_video                                            *)
(*   SpecExport  the records _save_tracking_data builds from observations  *)
(*   SpecBall  interpolation of the ball track                             *)
(*   SpecDist  cumulative distance of a player track                       *)
(*   SpecAssign  assignment of the ball to a player, frame by frame        *)
(*   SpecAdjust  CameraMovementEstimator.add_adjust_positions_to_tracks    *)
(*   SpecTeam  fitting the team model and labelling the players            *)
(*   SpecKeeper  resolve_goalkeepers_team_id                               *)
(*   SpecPipe  the order of the stages of process_video / main             *)
(*   SpecJob  the job processor: polling loop, job threads, stop()         *)
(*   SpecUpload  the chunk upload endpoint for one match                   *)
(*   SpecJersey  jersey numbers of the trackers                            *)
(* A component that a specification does not exercise stays in its idle    *)
(* state.  Pixel coordinates are fixed-point numbers: Sub units per pixel. *)
(***************************************************************************)
EXTENDS Integers, Sequences, FiniteSets, TLC

VARIABLES
    \* ---- ViewTransformer ----
    vt_pc,              \* "new" | "ready" | "raised"
    vt_frame,           \* <<frame_width, frame_height>> of the frame given, <<>> for frame=None
    vt_failed,          \* the step of detect_field_corners that raised ("none" if none did)
    pixel_vertices,     \* self.pixel_vertices, <<>> before construction
    vt_tracks,          \* the observations add_transformed_position_to_tracks has visited
    \* ---- CameraMovementEstimator ----
    cam_pc,             \* "idle" | "loop" | "done" | "raised"
    cam_n,              \* len(frames)
    frame_num,          \* loop variable of get_camera_movement
    camera_movement,    \* the list being computed
    old_features,       \* the frame goodFeaturesToTrack last ran on, and whether it found any
    cam_last,           \* what the last iteration saw: the pairs and what it recorded
    \* ---- possession loop ----
    poss_pc,            \* "idle" | "loop" | "summary" | "done" | "raised"
    entry,              \* "main" | "process_video"
    poss_n,             \* number of frames
    ball_seen,          \* whether the ball was detected in at least one frame
    ball_track,         \* what interpolate_ball_positions left: "full" | "empty" | "nan"
    poss_frame,         \* loop variable of the possession loop
    team_ball_control,  \* the list being filled
    assigned_log,       \* per frame: the team of the assigned player, or -1
    summary,            \* result of _create_analysis_summary, <<>> before
    \* ---- persistence ----
    save_pc,            \* "idle" | "loop" | "flush" | "done" | "raised"
    save_path,          \* "ml" (_save_tracking_data) | "enhanced"
    save_n,             \* frames the complete run covers
    save_frame,         \* frames whose records have been produced
    save_made,          \* records produced so far
    position_batch,     \* records waiting in the current batch
    db_rows,            \* rows of tracked_positions persisted for this run
    save_events,        \* what happened: subset of {"insert_failed", "stopped"}
    \* ---- read_video ----
    rv_pc,              \* "start" | "reading" | "evaluate" | "returned" | "raised"
    frames_len,         \* len(frames)
    error_count,
    consecutive_errors,
    rv_skipped,         \* whether an unreadable frame was skipped and a later one decoded
    rv_stop,            \* why reading ended: "" | "unopened" | "eof" | "consecutive" | "total"
    rv_result,          \* len of the list returned, -1 while none is
    \* ---- records of _save_tracking_data ----
    exp_pc,             \* "idle" | "saving" | "raised"
    exp_obs,            \* the observations visited, in order
    exp_records,        \* positions_batch: the records built from them
    \* ---- ball interpolation ----
    bi_pc,              \* "idle" | "tracked" | "interpolated"
    ball_positions,     \* the ball track: per frame a position, <<>> where undetected
    bi_before,          \* the track the last interpolation was given
    bi_runs,            \* how many times the track was interpolated
    \* ---- speed and distance ----
    sd_pc,              \* "idle" | "loop" | "done"
    sd_track,           \* a player track: per frame position_transformed and distance
    total_distance,     \* the running sum for the track
    sd_last,            \* the last known pitch position of the track, <<>> if none
    \* ---- ball assignment ----
    pa_pc,              \* "idle" | "loop" | "done"
    pa_frames,          \* per frame: the players, the ball, the assigned player
    \* ---- add_adjust_positions_to_tracks ----
    adj_pc,             \* "idle" | "loop" | "done"
    adj_cm,             \* camera_movement_per_frame
    adj_tracks,         \* per frame the observation of one track
    adj_frame,          \* loop variable
    \* ---- team classification ----
    tm_pc,              \* "idle" | "sampling" | "fit" | "loop" | "done" | "raised"
    tm_path,            \* "enhanced" (TeamClassifier) | "ml" (TeamAssigner)
    tm_n,               \* frames of the run
    tm_crops,           \* player crops collected for the fit
    tm_fits,            \* how many times the model was fit
    tm_frame,           \* loop variable of the frame loop
    tm_log,             \* per frame: the predict calls made, the fits before them, the labels
    \* ---- goalkeeper team resolution ----
    gk_pc,              \* "idle" | "resolved"
    gk_players,         \* the outfield players of the frame: anchor and team label
    gk_keepers,         \* the anchors of the goalkeepers of the frame
    goalkeepers_team_id, \* the labels returned
    \* ---- pipeline stages ----
    pipe_pc,            \* "idle" | "run" | "done" | "raised"
    pipe_entry,         \* "main" | "process_video"
    pipe_n,             \* frames of the video
    pipe_stage,         \* index of the stage that is running
    pipe_frame,         \* frames the running stage has gone through
    pipe_done,          \* the stages finished, in order, with the frames each went through
    \* ---- job processor (job_processor.py) ----
    job_running,        \* self.running
    poll_pc,            \* where the polling thread is
    queued_jobs,        \* the list the polling loop is going through
    poll_i,             \* index of the loop in queued_jobs
    active_jobs,        \* self.active_jobs, pairs <<job id, thread>>
    job_lock,           \* who holds self.job_lock
    job_threads,        \* the job threads started so far
    job_log,            \* job id -> statuses written to its row, in order
    stop_pc,            \* where the caller of stop() is
    \* ---- chunk upload (main.py) ----
    up_pending,         \* requests reading their file
    chunk_files,        \* indices of the chunk files on disk
    match_row,          \* the row of the match
    jobs_rows,          \* number of enhanced_analysis jobs of the match
    up_response,        \* status code of the last response
    last_uploads,       \* last-chunk requests handled
    up_overlap,         \* a last-chunk request ended while another was pending
    \* ---- jersey manager (enhanced_jersey_manager.py) ----
    tracker_to_jersey,  \* tracker id -> stored jersey number, 0 for none
    available_jerseys,  \* team -> free numbers of its pool
    jersey_first,       \* tracker id -> first number assign_jersey returned
    jersey_last         \* tracker id -> last number assign_jersey returned

vtVars   == <<vt_pc, vt_frame, vt_failed, pixel_vertices, vt_tracks>>
camVars  == <<cam_pc, cam_n, frame_num, camera_movement, old_features, cam_last>>
possVars == <<poss_pc, entry, poss_n, ball_seen, ball_track, poss_frame,
              team_ball_control, assigned_log, summary>>
saveVars == <<save_pc, save_path, save_n, save_frame, save_made, position_batch,
              db_rows, save_events>>
rvVars   == <<rv_pc, frames_len, error_count, consecutive_errors, rv_skipped, rv_stop,
              rv_result>>
expVars  == <<exp_pc, exp_obs, exp_records>>
biVars   == <<bi_pc, ball_positions, bi_before, bi_runs>>
sdVars   == <<sd_pc, sd_track, total_distance, sd_last>>
paVars   == <<pa_pc, pa_frames>>
adjVars  == <<adj_pc, adj_cm, adj_tracks, adj_frame>>
tmVars   == <<tm_pc, tm_path, tm_n, tm_crops, tm_fits, tm_frame, tm_log>>
gkVars   == <<gk_pc, gk_players, gk_keepers, goalkeepers_team_id>>
pipeVars == <<pipe_pc, pipe_entry, pipe_n, pipe_stage, pipe_frame, pipe_done>>
jobVars  == <<job_running, poll_pc, queued_jobs, poll_i, active_jobs, job_lock, job_threads, job_log, stop_pc>>
upVars   == <<up_pending, chunk_files, match_row, jobs_rows, up_response, last_uploads, up_overlap>>
jerseyVars == <<tracker_to_jersey, available_jerseys, jersey_first, jersey_last>>
vars     == <<vtVars, camVars, possVars, saveVars, rvVars, expVars, biVars, sdVars,
              paVars, adjVars, tmVars, gkVars, pipeVars, jobVars, upVars, jerseyVars>>

notVT   == <<camVars, possVars, saveVars, rvVars, expVars, biVars, sdVars, paVars,
              adjVars, tmVars, gkVars, pipeVars, jobVars, upVars, jerseyVars>>
notCam  == <<vtVars, possVars, saveVars, rvVars, expVars, biVars, sdVars, paVars,
              adjVars, tmVars, gkVars, pipeVars, jobVars, upVars, jerseyVars>>
notPoss == <<vtVars, camVars, saveVars, rvVars, expVars, biVars, sdVars, paVars, adjVars,
              tmVars, gkVars, pipeVars, jobVars, upVars, jerseyVars>>
notSave == <<vtVars, camVars, possVars, rvVars, expVars, biVars, sdVars, paVars, adjVars,
              tmVars, gkVars, pipeVars, jobVars, upVars, jerseyVars>>
notRead == <<vtVars, camVars, possVars, saveVars, expVars, biVars, sdVars, paVars,
              adjVars, tmVars, gkVars, pipeVars, jobVars, upVars, jerseyVars>>
notExp  == <<vtVars, camVars, possVars, saveVars, rvVars, biVars, sdVars, paVars,
              adjVars, tmVars, gkVars, pipeVars, jobVars, upVars, jerseyVars>>
notBall == <<vtVars, camVars, possVars, saveVars, rvVars, expVars, sdVars, paVars,
              adjVars, tmVars, gkVars, pipeVars, jobVars, upVars, jerseyVars>>
notDist == <<vtVars, camVars, possVars, saveVars, rvVars, expVars, biVars, paVars,
              adjVars, tmVars, gkVars, pipeVars, jobVars, upVars, jerseyVars>>
notAssign == <<vtVars, camVars, possVars, saveVars, rvVars, expVars, biVars, sdVars,
              adjVars, tmVars, gkVars, pipeVars, jobVars, upVars, jerseyVars>>
notAdjust == <<vtVars, camVars, possVars, saveVars, rvVars, expVars, biVars, sdVars,
              paVars, tmVars, gkVars, pipeVars, jobVars, upVars, jerseyVars>>
notTeam == <<vtVars, camVars, possVars, saveVars, rvVars, expVars, biVars, sdVars,
              paVars, adjVars, gkVars, pipeVars, jobVars, upVars, jerseyVars>>
notKeeper == <<vtVars, camVars, possVars, saveVars, rvVars, expVars, biVars, sdVars,
              paVars, adjVars, tmVars, pipeVars, jobVars, upVars, jerseyVars>>
notPipe == <<vtVars, camVars, possVars, saveVars, rvVars, expVars, biVars, sdVars,
              paVars, adjVars, tmVars, gkVars, jobVars, upVars, jerseyVars>>
notJob == <<vtVars, camVars, possVars, saveVars, rvVars, expVars, biVars, sdVars, paVars,
              adjVars, tmVars, gkVars, pipeVars, upVars, jerseyVars>>
notUpload == <<vtVars, camVars, possVars, saveVars, rvVars, expVars, biVars, sdVars,
              paVars, adjVars, tmVars, gkVars, pipeVars, jobVars, jerseyVars>>
notJersey == <<vtVars, camVars, possVars, saveVars, rvVars, expVars, biVars, sdVars,
              paVars, adjVars, tmVars, gkVars, pipeVars, jobVars, upVars>>

None == <<>>

Abs(n) == IF n < 0 THEN -n ELSE n

(***************************************************************************)
(* ViewTransformer                                                         *)
(***************************************************************************)

\* Fixed-point resolution of pixel coordinates: units per pixel.
Sub == 2

\* Python's int() on a coordinate: truncation toward zero, in whole pixels.
PyInt(v) == IF v >= 0 THEN v \div Sub ELSE -((-v) \div Sub)

\* Frames the model constructs a ViewTransformer from: <<width, height>>.
Frames == {<<10, 20>>, <<20, 20>>}

DefaultVertices == <<<<110, 1035>>, <<265, 275>>, <<910, 260>>, <<1640, 915>>>>

\* court_width and court_length, in hundredths of a metre (68 and 23.32).
court_width == 6800
court_length == 2332

\* self.target_vertices
TargetVertices == <<<<0, court_width>>, <<0, 0>>, <<court_length, 0>>,
                    <<court_length, court_width>>>>

\* int(frame_width * 0.1), int(frame_height * 0.15), int((right - left) * 0.7)
\* (the products are exact on the frames of Frames; in floating point
\* int(n * 0.7) is one below the exact value for some n, e.g. n = 90).
ProportionalCorners(frame_width, frame_height) ==
    LET margin_x == (frame_width * 10) \div 100
        margin_y == (frame_height * 15) \div 100
        left == margin_x
        right == frame_width - margin_x
        top == margin_y
        bottom == frame_height - margin_y
        top_width == ((right - left) * 7) \div 10
        top_left_x == left + (right - left - top_width) \div 2
        top_right_x == top_left_x + top_width
    IN  << <<top_left_x, bottom>>, <<top_left_x, top>>,
           <<top_right_x, top>>, <<right, bottom>> >>

\* Twice the signed area of a polygon (shoelace), as cv2.contourArea computes it.
RECURSIVE Shoelace(_, _)
Shoelace(poly, i) ==
    IF i > Len(poly) THEN 0
    ELSE LET a == poly[i]
             b == poly[(i % Len(poly)) + 1]
         IN  a[1] * b[2] - b[1] * a[2] + Shoelace(poly, i + 1)

Area2(poly) == Abs(Shoelace(poly, 1))

ValidateFieldCorners(corners, frame_width, frame_height) ==
    /\ \A i \in 1..Len(corners) :
          ~(\/ corners[i][1] < 0 \/ corners[i][1] > frame_width
            \/ corners[i][2] < 0 \/ corners[i][2] > frame_height)
    /\ 5 * Area2(corners) >= 2 * frame_width * frame_height    \* 0.2 <= area_ratio
    /\ 5 * Area2(corners) <= 8 * frame_width * frame_height    \* area_ratio <= 0.8

\* np.argmin / np.argmax: the first index holding the extreme value.
ArgMin(f) == CHOOSE i \in DOMAIN f :
                /\ \A j \in DOMAIN f : f[i] <= f[j]
                /\ \A j \in DOMAIN f : f[j] = f[i] => i <= j
ArgMax(f) == CHOOSE i \in DOMAIN f :
                /\ \A j \in DOMAIN f : f[i] >= f[j]
                /\ \A j \in DOMAIN f : f[j] = f[i] => i <= j

\* The ordering step of detect_field_corners on the box of cv2.boxPoints.
SortCorners(box) ==
    LET sum_coords == [i \in 1..4 |-> box[i][1] + box[i][2]]
        diff_coords == [i \in 1..4 |-> box[i][2] - box[i][1]]
        top_left == box[ArgMin(sum_coords)]
        bottom_right == box[ArgMax(sum_coords)]
        top_right == box[ArgMin(diff_coords)]
        bottom_left == box[ArgMax(diff_coords)]
    IN  <<top_left, top_right, bottom_right, bottom_left>>

\* The steps of detect_field_corners that can raise inside its try block.
DetectSteps == {"cvtColor", "GaussianBlur", "Canny", "findContours", "minAreaRect"}

\* Boxes cv2.minAreaRect / boxPoints may return for the candidate contour
\* (<<>>: no contour qualified, field_contour is None).
Boxes(W, H) ==
    { <<>>,
      << <<1, H - 2>>, <<1, 2>>, <<W - 1, 2>>, <<W - 1, H - 2>> >>,   \* a large field
      << <<1, 4>>, <<1, 2>>, <<3, 2>>, <<3, 4>> >>,                   \* too small
      << <<0 - 1, H>>, <<0 - 1, 0>>, <<W, 0>>, <<W, H>> >> }          \* out of the frame

\* detect_field_corners(frame): fail is the step that raises ("none": no step
\* raises), box the outcome of the contour search.  Result: the corners, or
\* raised when the function itself propagates an exception.
DetectFieldCorners(frame, fail, box) ==
    LET frame_width == frame[1]
        frame_height == frame[2]
        \* gray.shape is unpacked right after cvtColor: the two names are bound
        \* only if cvtColor returned
        dims_bound == fail # "cvtColor"
        corners == SortCorners(box)
        detected == /\ fail = "none"
                    /\ box # <<>>
                    /\ ValidateFieldCorners(corners, frame_width, frame_height)
    IN  IF detected
          THEN [raised |-> FALSE, corners |-> corners]
        ELSE IF dims_bound
          THEN [raised |-> FALSE,
                corners |-> ProportionalCorners(frame_width, frame_height)]
        ELSE [raised |-> TRUE, corners |-> <<>>]    \* UnboundLocalError: frame_width

\* ViewTransformer.__init__(frame)
Construct(frame, fail, box) ==
    /\ vt_pc = "new"
    /\ vt_frame' = frame
    /\ IF frame = None
         THEN /\ vt_failed' = "none"
              /\ pixel_vertices' = DefaultVertices
              /\ vt_pc' = "ready"
         ELSE LET r == DetectFieldCorners(frame, fail, box)
              IN  /\ vt_failed' = fail
                  /\ pixel_vertices' = r.corners
                  /\ vt_pc' = IF r.raised THEN "raised" ELSE "ready"
    /\ UNCHANGED vt_tracks
    /\ UNCHANGED notVT

\* Whether point p lies on the closed segment a-b.
OnSegment(a, b, p) ==
    /\ (b[1] - a[1]) * (p[2] - a[2]) = (b[2] - a[2]) * (p[1] - a[1])
    /\ (IF a[1] <= b[1] THEN a[1] ELSE b[1]) <= p[1]
    /\ p[1] <= (IF a[1] <= b[1] THEN b[1] ELSE a[1])
    /\ (IF a[2] <= b[2] THEN a[2] ELSE b[2]) <= p[2]
    /\ p[2] <= (IF a[2] <= b[2] THEN b[2] ELSE a[2])

\* Whether the ray from p toward +x crosses the edge a-b.
Crosses(a, b, p) ==
    /\ (a[2] > p[2]) # (b[2] > p[2])
    /\ LET d == b[2] - a[2]
           lhs == (p[1] - a[1]) * d
           rhs == (p[2] - a[2]) * (b[1] - a[1])
       IN  IF d > 0 THEN lhs < rhs ELSE lhs > rhs

Edges(poly) == {<<poly[i], poly[(i % Len(poly)) + 1]>> : i \in 1..Len(poly)}

\* cv2.pointPolygonTest(poly, p, False): +1 inside, 0 on an edge, -1 outside.
PointPolygonTest(poly, p) ==
    IF \E e \in Edges(poly) : OnSegment(e[1], e[2], p) THEN 0
    ELSE IF Cardinality({e \in Edges(poly) : Crosses(e[1], e[2], p)}) % 2 = 1 THEN 1
    ELSE -1

\* cv2.perspectiveTransform(point, M): an uninterpreted image of the point.
PerspectiveTransform(vertices, point) == <<"H", point[1], point[2]>>

\* transform_point(point): point in fixed-point units; the containment test is
\* made on the int()-truncated point, the transform on the point itself.
TransformPoint(vertices, point) ==
    LET p == <<PyInt(point[1]), PyInt(point[2])>>
        is_inside == PointPolygonTest(vertices, p) >= 0
    IN  IF ~is_inside THEN None ELSE PerspectiveTransform(vertices, point)

\* Maximal number of observations visited by add_transformed_position_to_tracks.
MaxObs == 2

\* position_adjusted values of the observations, in fixed-point units
\* (None: an observation whose position_adjusted is None).
Probes == {<<x, y>> : x \in {3, 4, 10, 18, 19}, y \in {5, 6, 20, 34, 35}} \cup {None}

\* One iteration of the innermost loop of add_transformed_position_to_tracks.
AddTransformedPosition(position) ==
    /\ vt_pc = "ready"
    /\ Len(vt_tracks) < MaxObs
    /\ vt_tracks' = Append(vt_tracks,
          [position_adjusted |-> position,
           position_transformed |->
              IF position # None THEN TransformPoint(pixel_vertices, position)
              ELSE None])
    /\ UNCHANGED <<vt_pc, vt_frame, vt_failed, pixel_vertices>>
    /\ UNCHANGED notVT

VTIdle ==
    /\ vt_pc = "new"
    /\ vt_frame = None
    /\ vt_failed = "none"
    /\ pixel_vertices = <<>>
    /\ vt_tracks = <<>>

NextVT ==
    \/ \E frame \in Frames \cup {None}, fail \in DetectSteps \cup {"none"} :
          \E box \in (IF frame = None THEN {<<>>} ELSE Boxes(frame[1], frame[2])) :
             Construct(frame, fail, box)
    \/ \E position \in Probes : AddTransformedPosition(position)

(***************************************************************************)
(* CameraMovementEstimator.get_camera_movement                             *)
(***************************************************************************)

\* self.minimum_distance
minimum_distance == 5

\* Maximal len(frames) and maximal number of feature pairs per frame.
MaxCamFrames == 3
MaxPairs == 2

\* utils.measure_distance(p1, p2), squared (the code compares distances only).
MeasureDistance2(p1, p2) ==
    (p1[1] - p2[1]) * (p1[1] - p2[1]) + (p1[2] - p2[2]) * (p1[2] - p2[2])

\* utils.measure_xy_distance(p1, p2)
MeasureXYDistance(p1, p2) == <<p1[1] - p2[1], p1[2] - p2[2]>>

\* Displacements new - old the optical flow may report for a feature.
Displacements == {<<3, 0>>, <<3, 4>>, <<0, 6>>, <<40, 0>>, <<0 - 24, 32>>}

\* A tracked feature pair: [old |-> point, new |-> point].
FeaturePairs == {[old |-> <<100, 50>>, new |-> <<100 + d[1], 50 + d[2]>>] :
                    d \in Displacements}

PairSeqs == UNION {[1..k -> FeaturePairs] : k \in 0..MaxPairs}

\* The loop over zip(new_features, old_features): the state after pair i..Len,
\* starting from acc = [max_distance2, movement].
RECURSIVE ScanPairs(_, _, _)
ScanPairs(pairs, i, acc) ==
    IF i > Len(pairs) THEN acc
    ELSE LET distance2 == MeasureDistance2(pairs[i].new, pairs[i].old)
         IN  IF distance2 > acc.max_distance2
               THEN ScanPairs(pairs, i + 1,
                       [max_distance2 |-> distance2,
                        movement |-> MeasureXYDistance(pairs[i].old, pairs[i].new)])
               ELSE ScanPairs(pairs, i + 1, acc)

\* The mean of the pairs' vectors reported in place of the largest one.
RECURSIVE SumVectors(_, _)
SumVectors(pairs, i) ==
    IF i > Len(pairs) THEN <<0, 0>>
    ELSE LET v == MeasureXYDistance(pairs[i].old, pairs[i].new)
             r == SumVectors(pairs, i + 1)
         IN  <<v[1] + r[1], v[2] + r[2]>>

MaxMovementMean(pairs) ==
    LET m == ScanPairs(pairs, 1, [max_distance2 |-> 0, movement |-> <<0, 0>>])
        t == SumVectors(pairs, 1)
    IN  [max_distance2 |-> m.max_distance2,
         movement |-> IF pairs = <<>> THEN <<0, 0>>
                      ELSE <<t[1] \div Len(pairs), t[2] \div Len(pairs)>>]

MaxMovement(pairs) == ScanPairs(pairs, 1, [max_distance2 |-> 0, movement |-> <<0, 0>>])

\* The test with the bound included.
ExceedsMinimumInclusive(max_distance2) ==
    max_distance2 >= minimum_distance * minimum_distance

\* max_distance > self.minimum_distance
ExceedsMinimum(max_distance2) == max_distance2 > minimum_distance * minimum_distance

\* camera_movement[frame_num] = [camera_movement_x, camera_movement_y] written
\* in place into every entry (a mutation of the list all entries alias).
RecordMovementAliased(cm, f, movement) == [i \in DOMAIN cm |-> movement]

\* camera_movement[frame_num] = [camera_movement_x, camera_movement_y]
RecordMovement(cm, f, movement) == [cm EXCEPT ![f + 1] = movement]

\* old_features as goodFeaturesToTrack left it on frame f (found: not None).
FeaturesOf(f, found) == [frame |-> f, found |-> found]

\* get_camera_movement(frames) up to the loop: camera_movement = [[0,0]]*len(frames)
\* (the entries alias one list, which index assignment never mutates),
\* frames[0] is read (IndexError on an empty list), features: whether
\* goodFeaturesToTrack found any on the first frame.
CamStart(n, features) ==
    /\ cam_pc = "idle"
    /\ cam_n' = n
    /\ frame_num' = 1
    /\ camera_movement' = [i \in 1..n |-> <<0, 0>>]
    /\ old_features' = FeaturesOf(0, features)
    /\ cam_last' = None
    /\ cam_pc' = IF n = 0 THEN "raised" ELSE "loop"
    /\ UNCHANGED notCam

\* One iteration of the loop for frame_num (0-based) with the feature pairs the
\* optical flow produced; redetect: whether goodFeaturesToTrack finds features
\* on the current frame when it is called.
CamIterate(pairs, redetect) ==
    /\ cam_pc = "loop"
    /\ frame_num < cam_n
    /\ IF ~old_features.found
         THEN \* calcOpticalFlowPyrLK / zip on old_features = None raises
              /\ cam_pc' = "raised"
              /\ UNCHANGED <<frame_num, camera_movement, old_features, cam_last>>
         ELSE LET m == MaxMovement(pairs)
                  record == ExceedsMinimum(m.max_distance2)
              IN  /\ camera_movement' =
                        IF record
                          THEN RecordMovement(camera_movement, frame_num, m.movement)
                          ELSE camera_movement
                  /\ old_features' =
                        IF record
                          THEN FeaturesOf(frame_num, redetect)
                          ELSE old_features
                  /\ cam_last' = [frame |-> frame_num, pairs |-> pairs,
                                  before |-> camera_movement, recorded |-> record,
                                  features_before |-> old_features]
                  /\ frame_num' = frame_num + 1
                  /\ cam_pc' = "loop"
    /\ UNCHANGED cam_n
    /\ UNCHANGED notCam

\* The loop is exhausted: return camera_movement.
CamReturn ==
    /\ cam_pc = "loop"
    /\ frame_num >= cam_n
    /\ cam_pc' = "done"
    /\ UNCHANGED <<cam_n, frame_num, camera_movement, old_features, cam_last>>
    /\ UNCHANGED notCam

CamIdle ==
    /\ cam_pc = "idle"
    /\ cam_n = 0
    /\ frame_num = 0
    /\ camera_movement = <<>>
    /\ old_features = FeaturesOf(0, FALSE)
    /\ cam_last = None

NextCam ==
    \/ \E n \in 0..MaxCamFrames, features \in BOOLEAN : CamStart(n, features)
    \/ \E pairs \in PairSeqs, redetect \in BOOLEAN : CamIterate(pairs, redetect)
    \/ CamReturn

(***************************************************************************)
(* Ball possession: the loop of main / process_video and the summary       *)
(***************************************************************************)

\* Maximal number of frames of a possession run.
MaxPossFrames == 3

\* Labels TeamAssigner.get_player_team gives a player: the two team labels.
TeamLabels == {0, 1}

\* The labels _create_analysis_summary counts as the first and the second team.
SummaryTeam1 == 1
SummaryTeam2 == 2

\* The team recorded for frame 0 when no player is assigned (process_video).
FirstFrameDefault == 1

\* Outcomes of tracker.interpolate_ball_positions on the ball track: with a
\* detection in some frame every frame gets a ball entry; with none, the
\* interpolation raises, or leaves frames without a ball entry, or fills
\* them with undefined (NaN) boxes.
InterpolateBallPositions(seen) ==
    IF seen THEN {"full"} ELSE {"raise", "empty", "nan"}

\* Steps 7..9 are done; the possession loop of `e` starts over n frames.
PossStart(e, n, seen, track) ==
    /\ poss_pc = "idle"
    /\ track \in InterpolateBallPositions(seen)
    /\ entry' = e
    /\ poss_n' = n
    /\ ball_seen' = seen
    /\ ball_track' = track
    /\ poss_frame' = 0
    /\ team_ball_control' = <<>>
    /\ assigned_log' = <<>>
    /\ summary' = None
    /\ poss_pc' = IF track = "raise" THEN "raised" ELSE "loop"
    /\ UNCHANGED notPoss

\* What PlayerBallAssigner.assign_ball_to_player can return for a frame, as the
\* team of the assigned player (-1: no player within range).  No distance to
\* an undefined ball box is below the radius.
AssignBallToPlayer(track) ==
    IF track = "nan" THEN {0 - 1} ELSE TeamLabels \cup {0 - 1}

\* team_ball_control[-1] on the empty list: main has no first-frame default.
StickyRaises(e, tbc) == e = "main" /\ tbc = <<>>

\* The else branch appending the default team whatever came before.
AppendDefault(e, tbc) == Append(tbc, FirstFrameDefault)

\* team_ball_control.append(...) in the else branch, per entry point.
AppendSticky(e, tbc) ==
    IF tbc # <<>> THEN Append(tbc, tbc[Len(tbc)])
    ELSE Append(tbc, FirstFrameDefault)

\* One iteration of the possession loop; team: the outcome of
\* assign_ball_to_player for this frame.
PossIterate(team) ==
    /\ poss_pc = "loop"
    /\ poss_frame < poss_n
    /\ team \in AssignBallToPlayer(ball_track)
    /\ IF ball_track = "empty"
         THEN \* tracks['ball'][frame_num][1]: KeyError
              /\ poss_pc' = "raised"
              /\ UNCHANGED <<poss_frame, team_ball_control, assigned_log>>
         ELSE IF team = 0 - 1 /\ StickyRaises(entry, team_ball_control)
           THEN \* IndexError
                /\ poss_pc' = "raised"
                /\ assigned_log' = Append(assigned_log, team)
                /\ UNCHANGED <<poss_frame, team_ball_control>>
         ELSE /\ team_ball_control' =
                    IF team # 0 - 1 THEN Append(team_ball_control, team)
                    ELSE AppendSticky(entry, team_ball_control)
              /\ assigned_log' = Append(assigned_log, team)
              /\ poss_frame' = poss_frame + 1
              /\ poss_pc' = "loop"
    /\ UNCHANGED <<entry, poss_n, ball_seen, ball_track, summary>>
    /\ UNCHANGED notPoss

\* The loop is exhausted: main is done; process_video goes on to the summary.
PossLoopEnd ==
    /\ poss_pc = "loop"
    /\ poss_frame >= poss_n
    /\ poss_pc' = IF entry = "process_video" THEN "summary" ELSE "done"
    /\ UNCHANGED <<entry, poss_n, ball_seen, ball_track, poss_frame,
                   team_ball_control, assigned_log, summary>>
    /\ UNCHANGED notPoss

\* np.sum(team_ball_control == label)
CountEq(tbc, label) == Cardinality({i \in 1..Len(tbc) : tbc[i] = label})

\* _create_analysis_summary: the possession part.
CreateAnalysisSummary(tbc) ==
    [total_frames |-> Len(tbc),
     team_1_control |-> CountEq(tbc, SummaryTeam1),
     team_2_control |-> CountEq(tbc, SummaryTeam2)]

PossSummary ==
    /\ poss_pc = "summary"
    /\ summary' = CreateAnalysisSummary(team_ball_control)
    /\ poss_pc' = "done"
    /\ UNCHANGED <<entry, poss_n, ball_seen, ball_track, poss_frame,
                   team_ball_control, assigned_log>>
    /\ UNCHANGED notPoss

PossIdle ==
    /\ poss_pc = "idle"
    /\ entry = "main"
    /\ poss_n = 0
    /\ ball_seen = FALSE
    /\ ball_track = "full"
    /\ poss_frame = 0
    /\ team_ball_control = <<>>
    /\ assigned_log = <<>>
    /\ summary = None

NextPoss ==
    \/ \E e \in {"main", "process_video"}, n \in 1..MaxPossFrames,
          seen \in BOOLEAN, track \in {"full", "raise", "empty", "nan"} :
             PossStart(e, n, seen, track)
    \/ \E team \in TeamLabels \cup {0 - 1} : PossIterate(team)
    \/ PossLoopEnd
    \/ PossSummary

(***************************************************************************)
(* Persistence of tracked positions                                        *)
(***************************************************************************)

\* batch_size of _save_tracking_data and BATCH_SIZE of the enhanced analysis.
batch_size == 100
BATCH_SIZE == 330

BatchLimit(path) == IF path = "ml" THEN batch_size ELSE BATCH_SIZE

\* Maximal number of frames of a run that is saved.
MaxSaveFrames == 16

\* Records one frame can contribute (22 players and the ball, or nothing).
FrameRecords == {0, 23}

\* A run starts saving: _save_tracking_data after the analysis ("ml"), or the
\* frame loop of process_enhanced_video_analysis ("enhanced").
SaveStart(path, n) ==
    /\ save_pc = "idle"
    /\ save_path' = path
    /\ save_n' = n
    /\ save_frame' = 0
    /\ save_made' = 0
    /\ position_batch' = 0
    /\ db_rows' = 0
    /\ save_events' = {}
    /\ save_pc' = "loop"
    /\ UNCHANGED notSave

\* supabase ...insert(batch).execute() inside _save_tracking_data: an error is
\* logged and raised again.  ok: whether the insert succeeds.
\* db.insert_tracked_positions_batch(batch): an error is printed and swallowed.
InsertRaises(path, ok) == path = "ml" /\ ~ok

\* One frame of the loop: its records join the batch, a full batch is
\* inserted; quit: the user presses 'q' in the preview window (enhanced).
SaveFrame(k, ok, quit) ==
    /\ save_pc = "loop"
    /\ save_frame < save_n
    /\ quit => save_path = "enhanced"
    /\ LET batch == position_batch + k
           full == batch >= BatchLimit(save_path)
       IN  /\ save_made' = save_made + k
           /\ IF full
                THEN /\ db_rows' = IF ok THEN db_rows + batch ELSE db_rows
                     /\ position_batch' = IF InsertRaises(save_path, ok) THEN batch ELSE 0
                     /\ save_events' = save_events
                            \cup (IF ok THEN {} ELSE {"insert_failed"})
                            \cup (IF quit THEN {"stopped"} ELSE {})
                ELSE /\ db_rows' = db_rows
                     /\ position_batch' = batch
                     /\ save_events' = save_events
                            \cup (IF quit THEN {"stopped"} ELSE {})
           /\ IF full /\ InsertRaises(save_path, ok)
                THEN /\ save_pc' = "raised"
                     /\ save_frame' = save_frame
                ELSE IF quit
                THEN \* break: the frame is not counted, the loop is left
                     /\ save_pc' = "flush"
                     /\ save_frame' = save_frame
                ELSE /\ save_pc' = IF save_frame + 1 = save_n THEN "flush" ELSE "loop"
                     /\ save_frame' = save_frame + 1
    /\ UNCHANGED <<save_path, save_n>>
    /\ UNCHANGED notSave

\* After the loop: the remaining records are inserted and the run returns.
SaveFlush(ok) ==
    /\ save_pc = "flush"
    /\ IF position_batch > 0
         THEN /\ db_rows' = IF ok THEN db_rows + position_batch ELSE db_rows
              /\ position_batch' = IF InsertRaises(save_path, ok) THEN position_batch ELSE 0
              /\ save_events' = save_events \cup (IF ok THEN {} ELSE {"insert_failed"})
              /\ save_pc' = IF InsertRaises(save_path, ok) THEN "raised" ELSE "done"
         ELSE /\ save_pc' = "done"
              /\ UNCHANGED <<db_rows, position_batch, save_events>>
    /\ UNCHANGED <<save_path, save_n, save_frame, save_made>>
    /\ UNCHANGED notSave

SaveIdle ==
    /\ save_pc = "idle"
    /\ save_path = "ml"
    /\ save_n = 0
    /\ save_frame = 0
    /\ save_made = 0
    /\ position_batch = 0
    /\ db_rows = 0
    /\ save_events = {}

NextSave ==
    \/ \E path \in {"ml", "enhanced"}, n \in 1..MaxSaveFrames : SaveStart(path, n)
    \/ \E k \in FrameRecords, ok \in BOOLEAN, quit \in BOOLEAN : SaveFrame(k, ok, quit)
    \/ \E ok \in BOOLEAN : SaveFlush(ok)

(***************************************************************************)
(* utils.read_video                                                        *)
(***************************************************************************)

max_consecutive_errors == 10
\* error_count <= 100: up to 100 bad frames in total are skipped
max_total_errors == 100
\* len(frames) < 100: not enough frames for analysis
min_frames == 100

\* Maximal number of frames decoded from one video.
MaxDecoded == 101

\* os.path.exists / cap.isOpened(): a missing or unopenable file returns [].
OpenVideo(opened) ==
    /\ rv_pc = "start"
    /\ rv_pc' = IF opened THEN "reading" ELSE "returned"
    /\ rv_result' = IF opened THEN rv_result ELSE 0
    /\ rv_stop' = IF opened THEN rv_stop ELSE "unopened"
    /\ UNCHANGED <<frames_len, error_count, consecutive_errors, rv_skipped>>
    /\ UNCHANGED notRead

\* One pass of the while loop; outcome of cap.read():
\*   "eof"   ret is False
\*   "frame" a frame was decoded
\*   "none"  ret is True and the frame is None
\*   "error" the read raised
ReadFrame(outcome) ==
    /\ rv_pc = "reading"
    /\ outcome = "frame" => frames_len < MaxDecoded
    /\ CASE outcome = "eof" ->
              /\ rv_pc' = "evaluate"
              /\ rv_stop' = "eof"
              /\ UNCHANGED <<frames_len, error_count, consecutive_errors, rv_skipped>>
         [] outcome = "frame" ->
              /\ frames_len' = frames_len + 1
              /\ consecutive_errors' = 0
              /\ rv_skipped' = (rv_skipped \/ consecutive_errors > 0)
              /\ UNCHANGED <<rv_pc, error_count, rv_stop>>
         [] outcome = "none" ->
              /\ consecutive_errors' = consecutive_errors + 1
              /\ IF consecutive_errors + 1 >= max_consecutive_errors
                   THEN rv_pc' = "evaluate" /\ rv_stop' = "consecutive"
                   ELSE UNCHANGED <<rv_pc, rv_stop>>
              /\ UNCHANGED <<frames_len, error_count, rv_skipped>>
         [] outcome = "error" ->
              /\ error_count' = error_count + 1
              /\ consecutive_errors' = consecutive_errors + 1
              /\ IF consecutive_errors + 1 >= max_consecutive_errors
                   THEN rv_pc' = "evaluate" /\ rv_stop' = "consecutive"
                   ELSE IF error_count + 1 <= max_total_errors
                   THEN UNCHANGED <<rv_pc, rv_stop>>
                   ELSE rv_pc' = "evaluate" /\ rv_stop' = "total"
              /\ UNCHANGED <<frames_len, rv_skipped>>
    /\ UNCHANGED rv_result
    /\ UNCHANGED notRead

\* The evaluation without the minimum of frames: whatever was decoded is returned.
EvaluateNoMinimum ==
    /\ rv_pc = "evaluate"
    /\ IF frames_len = 0 /\ error_count > 0
         THEN rv_pc' = "raised" /\ UNCHANGED rv_result
         ELSE rv_pc' = "returned" /\ rv_result' = frames_len
    /\ UNCHANGED <<frames_len, error_count, consecutive_errors, rv_skipped, rv_stop>>
    /\ UNCHANGED notRead

\* "Evaluate what we got": raise, return [] or return the frames.
Evaluate ==
    /\ rv_pc = "evaluate"
    /\ IF frames_len = 0
         THEN IF error_count > 0
                THEN rv_pc' = "raised" /\ UNCHANGED rv_result
                ELSE rv_pc' = "returned" /\ rv_result' = 0
         ELSE IF frames_len < min_frames
           THEN rv_pc' = "raised" /\ UNCHANGED rv_result
           ELSE rv_pc' = "returned" /\ rv_result' = frames_len
    /\ UNCHANGED <<frames_len, error_count, consecutive_errors, rv_skipped, rv_stop>>
    /\ UNCHANGED notRead

RvIdle ==
    /\ rv_pc = "start"
    /\ frames_len = 0
    /\ error_count = 0
    /\ consecutive_errors = 0
    /\ rv_skipped = FALSE
    /\ rv_stop = ""
    /\ rv_result = 0 - 1

NextRead ==
    \/ \E opened \in BOOLEAN : OpenVideo(opened)
    \/ \E outcome \in {"eof", "frame", "none", "error"} : ReadFrame(outcome)
    \/ Evaluate

(***************************************************************************)
(* CameraMovementEstimator.add_adjust_positions_to_tracks                  *)
(***************************************************************************)

\* Maximal number of frames of the tracks that are adjusted.
MaxAdjFrames == 3

\* Camera movement vectors and raw positions, in fixed-point units.
AdjMovements == {<<0, 0>>, <<1, 0>>, <<0 - 3, 2>>}
AdjPositions == {<<10 * Sub, 10 * Sub>>, <<1 * Sub, 10 * Sub>>}

\* An observation before the adjustment: its bounding box and its position.
RawObservation(position) ==
    [bbox |-> <<position[1] - Sub, position[2] - 4 * Sub, position[1] + Sub, position[2]>>,
     position |-> position]

RECURSIVE SumMovements(_, _)
SumMovements(cmpf, i) ==
    IF i = 0 THEN <<0, 0>>
    ELSE LET rest == SumMovements(cmpf, i - 1)
         IN  <<rest[1] + cmpf[i][1], rest[2] + cmpf[i][2]>>

\* A cumulative reading: the movements of frames 0..frame_num are summed.
PositionAdjustedCumulative(position, cmpf, f) ==
    LET movement == SumMovements(cmpf, f + 1)
    IN  <<position[1] - movement[1], position[2] - movement[2]>>

\* position_adjusted of an observation of frame frame_num (0-based).
PositionAdjusted(position, camera_movement_per_frame, f) ==
    LET movement == camera_movement_per_frame[f + 1]
    IN  <<position[1] - movement[1], position[2] - movement[2]>>

\* add_adjust_positions_to_tracks(tracks, camera_movement_per_frame) is called
\* with one vector and one observation of the track per frame.
AdjustStart(cmpf, positions) ==
    /\ adj_pc = "idle"
    /\ Len(cmpf) = Len(positions)
    /\ adj_cm' = cmpf
    /\ adj_tracks' = [i \in 1..Len(positions) |-> RawObservation(positions[i])]
    /\ adj_frame' = 0
    /\ adj_pc' = "loop"
    /\ UNCHANGED notAdjust

\* One iteration of the loop over the frames of the track.
AdjustIterate ==
    /\ adj_pc = "loop"
    /\ adj_frame < Len(adj_tracks)
    /\ LET track_info == adj_tracks[adj_frame + 1]
           position == track_info.position
           position_adjusted == PositionAdjusted(position, adj_cm, adj_frame)
       IN  adj_tracks' = [adj_tracks EXCEPT ![adj_frame + 1] =
                             [bbox |-> track_info.bbox,
                              position |-> track_info.position,
                              position_adjusted |-> position_adjusted]]
    /\ adj_frame' = adj_frame + 1
    /\ UNCHANGED <<adj_pc, adj_cm>>
    /\ UNCHANGED notAdjust

AdjustReturn ==
    /\ adj_pc = "loop"
    /\ adj_frame >= Len(adj_tracks)
    /\ adj_pc' = "done"
    /\ UNCHANGED <<adj_cm, adj_tracks, adj_frame>>
    /\ UNCHANGED notAdjust

AdjustIdle ==
    /\ adj_pc = "idle"
    /\ adj_cm = <<>>
    /\ adj_tracks = <<>>
    /\ adj_frame = 0

NextAdjust ==
    \/ \E n \in 0..MaxAdjFrames :
          \E cmpf \in [1..n -> AdjMovements], positions \in [1..n -> AdjPositions] :
             AdjustStart(cmpf, positions)
    \/ AdjustIterate
    \/ AdjustReturn

(***************************************************************************)
(* _save_tracking_data: the record built from each observation             *)
(***************************************************************************)

\* dict.get(key, default)
Get(d, key, default) == IF key \in DOMAIN d THEN d[key] ELSE default

\* Maximal number of observations the save visits.
MaxExport == 3

\* pixel_vertices of the run whose tracks are saved: the proportional
\* fallback on a 20x20 frame.
ExportVertices == ProportionalCorners(20, 20)

\* A player observation as the pipeline leaves it: position, then
\* position_adjusted (camera movement cm of its frame), then
\* position_transformed, then team.
PlayerObservation(position, cm, team) ==
    LET adjusted == PositionAdjusted(position, <<cm>>, 0)
    IN  [position |-> position,
         position_adjusted |-> adjusted,
         position_transformed |-> TransformPoint(ExportVertices, adjusted),
         team |-> team]

\* A ball observation of the track interpolate_ball_positions returns: the
\* interpolation runs after the view transformation and replaces the track by
\* a populated one, whose entries carry the box and the position only.
BallObservation(position) == RawObservation(position)

\* len(transformed_position) raises TypeError when position_transformed is
\* present and None.
RecordRaises(data) == Get(data, "position_transformed", data.position) = None

\* The record appended to positions_batch (transformed: x_transformed and
\* y_transformed together; team_id is None for the ball).
BuildRecord(object_type, data) ==
    LET position == data.position
        transformed_position == Get(data, "position_transformed", position)
    IN  [object_type |-> object_type,
         team_id |-> IF object_type = "player" THEN Get(data, "team", 0) ELSE None,
         position |-> position,
         transformed |-> transformed_position]

\* One observation with a position is visited by _save_tracking_data.
SaveObservation(object_type, data) ==
    /\ exp_pc \in {"idle", "saving"}
    /\ Len(exp_obs) < MaxExport
    /\ exp_obs' = Append(exp_obs, [object_type |-> object_type, data |-> data])
    /\ IF RecordRaises(data)
         THEN /\ exp_pc' = "raised"       \* logged and re-raised
              /\ UNCHANGED exp_records
         ELSE /\ exp_pc' = "saving"
              /\ exp_records' = Append(exp_records, BuildRecord(object_type, data))

SavePlayer(position, cm, team) ==
    /\ SaveObservation("player", PlayerObservation(position, cm, team))
    /\ UNCHANGED notExp

SaveBall(position) ==
    /\ SaveObservation("ball", BallObservation(position))
    /\ UNCHANGED notExp

ExpIdle ==
    /\ exp_pc = "idle"
    /\ exp_obs = <<>>
    /\ exp_records = <<>>

NextExport ==
    \/ \E position \in AdjPositions, cm \in AdjMovements, team \in TeamLabels :
          SavePlayer(position, cm, team)
    \/ \E position \in AdjPositions : SaveBall(position)

(***************************************************************************)
(* Tracker.interpolate_ball_positions                                      *)
(***************************************************************************)

\* Maximal number of frames of the ball track.
MaxBallFrames == 6

\* Ball coordinates are fixed-point numbers of BallUnit units per pixel, so
\* that a gap of up to 6 frames divides every difference exactly.
BallUnit == 3 * 4 * 5

\* Positions at which the ball is detected.
BallDetections == {<<50 * BallUnit, 50 * BallUnit>>, <<150 * BallUnit, 150 * BallUnit>>,
                   <<150 * BallUnit, 20 * BallUnit>>}

Known(track) == {f \in 1..Len(track) : track[f] # None}

Max(S) == CHOOSE m \in S : \A e \in S : e <= m
Min(S) == CHOOSE m \in S : \A e \in S : m <= e

\* The point at frame f on the line from p at frame i to q at frame j.
Lerp(p, q, i, j, f) ==
    <<p[1] + ((q[1] - p[1]) * (f - i)) \div (j - i),
      p[2] + ((q[2] - p[2]) * (f - i)) \div (j - i)>>

\* Every gap takes the position of the previous detection.
InterpolateBallHold(track) ==
    [f \in 1..Len(track) |->
        LET before == {i \in Known(track) : i <= f}
            after == {j \in Known(track) : j >= f}
        IN  IF before # {} THEN track[Max(before)] ELSE track[Min(after)]]

\* Every frame after the first detection takes the position of the detection
\* before it.
InterpolateBallLag(track) ==
    [f \in 1..Len(track) |->
        LET before == {i \in Known(track) : i < f}
            after == {j \in Known(track) : j >= f}
        IN  IF before # {} THEN track[Max(before)] ELSE track[Min(after)]]

\* interpolate_ball_positions on a track with at least one detection: a gap
\* between two detections is filled linearly, the frames before the first and
\* after the last detection take the nearest detection.
InterpolateBall(track) ==
    [f \in 1..Len(track) |->
        IF track[f] # None THEN track[f]
        ELSE LET before == {i \in Known(track) : i < f}
                 after == {j \in Known(track) : j > f}
             IN  IF before # {} /\ after # {}
                   THEN Lerp(track[Max(before)], track[Min(after)],
                             Max(before), Min(after), f)
                 ELSE IF before # {} THEN track[Max(before)]
                 ELSE track[Min(after)]]

\* The tracker meets one more frame: the ball is detected at p, or not (None).
BallFrame(p) ==
    /\ bi_pc \in {"idle", "tracked"}
    /\ Len(ball_positions) < MaxBallFrames
    /\ ball_positions' = Append(ball_positions, p)
    /\ bi_pc' = "tracked"
    /\ UNCHANGED <<bi_before, bi_runs>>
    /\ UNCHANGED notBall

\* tracks["ball"] = tracker.interpolate_ball_positions(tracks["ball"]), once
\* and once more on its own result (a track without any detection is the case
\* of PossStart).
Interpolate ==
    /\ bi_pc \in {"tracked", "interpolated"}
    /\ bi_runs < 2
    /\ Known(ball_positions) # {}
    /\ bi_before' = ball_positions
    /\ ball_positions' = InterpolateBall(ball_positions)
    /\ bi_runs' = bi_runs + 1
    /\ bi_pc' = "interpolated"
    /\ UNCHANGED notBall

BallIdle ==
    /\ bi_pc = "idle"
    /\ ball_positions = <<>>
    /\ bi_before = <<>>
    /\ bi_runs = 0

NextBall ==
    \/ \E p \in BallDetections \cup {None} : BallFrame(p)
    \/ Interpolate

(***************************************************************************)
(* SpeedAndDistance_Estimator: cumulative distance of one player track     *)
(***************************************************************************)

\* Maximal number of frames of the player track.
MaxDistFrames == 4

\* Pitch positions of the player (position_transformed), in decimetres.
PitchPoints == {<<0, 0>>, <<3, 4>>, <<6, 8>>, <<3, 0>>}

\* The distance between two pitch positions, to the decimetre below.
MeasureDistance(p1, p2) ==
    CHOOSE d \in 0..(Abs(p1[1] - p2[1]) + Abs(p1[2] - p2[2])) :
        /\ d * d <= MeasureDistance2(p1, p2)
        /\ (d + 1) * (d + 1) > MeasureDistance2(p1, p2)

\* A frame without pitch position starts the sum over.
DistanceAfterReset(total, last, position_transformed) ==
    IF position_transformed = None THEN 0
    ELSE IF last = None THEN total
    ELSE total + MeasureDistance(last, position_transformed)

\* The running sum after a frame: a frame whose pitch position is null adds
\* nothing, any other adds the displacement from the last known position.
DistanceAfter(total, last, position_transformed) ==
    IF position_transformed = None THEN total
    ELSE IF last = None THEN total
    ELSE total + MeasureDistance(last, position_transformed)

DistStart ==
    /\ sd_pc = "idle"
    /\ sd_pc' = "loop"
    /\ UNCHANGED <<sd_track, total_distance, sd_last>>
    /\ UNCHANGED notDist

\* One frame of the track: speed and distance are written to the observation.
DistFrame(position_transformed) ==
    /\ sd_pc = "loop"
    /\ Len(sd_track) < MaxDistFrames
    /\ total_distance' = DistanceAfter(total_distance, sd_last, position_transformed)
    /\ sd_last' = IF position_transformed = None THEN sd_last ELSE position_transformed
    /\ sd_track' = Append(sd_track,
          [position_transformed |-> position_transformed,
           distance |-> total_distance',
           speed |-> total_distance' - total_distance])
    /\ UNCHANGED sd_pc
    /\ UNCHANGED notDist

DistReturn ==
    /\ sd_pc = "loop"
    /\ sd_pc' = "done"
    /\ UNCHANGED <<sd_track, total_distance, sd_last>>
    /\ UNCHANGED notDist

DistIdle ==
    /\ sd_pc = "idle"
    /\ sd_track = <<>>
    /\ total_distance = 0
    /\ sd_last = None

NextDist ==
    \/ DistStart
    \/ \E position_transformed \in PitchPoints \cup {None} : DistFrame(position_transformed)
    \/ DistReturn

(***************************************************************************)
(* Ball assignment: PlayerBallAssigner and the has_ball flag               *)
(***************************************************************************)

\* Maximal number of frames of the assignment loop, and the track ids.
MaxAssignFrames == 2
PlayerIds == {1, 2}

\* The acceptance radius of the assigner, in pixels.
max_player_ball_distance == 50

\* Where the ball is, and the foot points a player may be at (pixels).
BallPoint == <<300, 300>>
FootPoints == {<<310, 305>>, <<500, 500>>, <<340, 330>>, <<290, 295>>}

\* The player tracks of one frame: each id absent, or present with a foot point.
PlayerTracks ==
    UNION {[ids -> {[foot |-> p] : p \in FootPoints}] : ids \in SUBSET PlayerIds}

\* assign_ball_to_player(player_track, ball): the player whose foot point is
\* nearest to the ball (the first such id) if nearer than the radius, else -1.
AssignNearest(player_track, ball) ==
    LET ids == DOMAIN player_track
        near == {i \in ids :
                    MeasureDistance2(player_track[i].foot, ball)
                        < max_player_ball_distance * max_player_ball_distance}
    IN  IF near = {} THEN -1
        ELSE CHOOSE i \in near :
                \A j \in near :
                    \/ MeasureDistance2(player_track[i].foot, ball)
                          < MeasureDistance2(player_track[j].foot, ball)
                    \/ /\ MeasureDistance2(player_track[i].foot, ball)
                            = MeasureDistance2(player_track[j].foot, ball)
                       /\ i <= j

\* The flag is set on every player of the frame.
SetHasBallAll(player_track, assigned_player) ==
    [i \in DOMAIN player_track |->
        [foot |-> player_track[i].foot, has_ball |-> TRUE]]

\* tracks['players'][frame_num][assigned_player]['has_ball'] = True
SetHasBall(player_track, assigned_player) ==
    [i \in DOMAIN player_track |->
        IF i = assigned_player
          THEN [foot |-> player_track[i].foot, has_ball |-> TRUE]
          ELSE player_track[i]]

AssignStart ==
    /\ pa_pc = "idle"
    /\ pa_pc' = "loop"
    /\ UNCHANGED pa_frames
    /\ UNCHANGED notAssign

\* One iteration of the assignment loop of process_video.
AssignFrame(player_track, ball) ==
    /\ pa_pc = "loop"
    /\ Len(pa_frames) < MaxAssignFrames
    /\ LET assigned_player == AssignNearest(player_track, ball)
       IN  pa_frames' = Append(pa_frames,
              [given |-> player_track,
               ball |-> ball,
               assigned_player |-> assigned_player,
               players |-> IF assigned_player # -1
                             THEN SetHasBall(player_track, assigned_player)
                             ELSE player_track])
    /\ UNCHANGED pa_pc
    /\ UNCHANGED notAssign

AssignReturn ==
    /\ pa_pc = "loop"
    /\ pa_pc' = "done"
    /\ UNCHANGED pa_frames
    /\ UNCHANGED notAssign

AssignIdle ==
    /\ pa_pc = "idle"
    /\ pa_frames = <<>>

NextAssign ==
    \/ AssignStart
    \/ \E player_track \in PlayerTracks : AssignFrame(player_track, BallPoint)
    \/ AssignReturn

(***************************************************************************)
(* Team classification: one fit, then a prediction per frame               *)
(***************************************************************************)

\* Maximal numbers of frames, of crops sampled for the fit, of players of a frame.
MaxTeamFrames == 3
MaxCrops == 2
MaxTeamPlayers == 2

\* The labels predicted for the players of one frame.
FrameLabels == UNION {[1..k -> TeamLabels] : k \in 0..MaxTeamPlayers}

\* The run reaches the team classification.  enhanced: TeamClassifier() and
\* the crop sampling loop; ml: TeamAssigner(), with the players of frame 0
\* as the crops of assign_team_color.
TeamBegin(path, n, first) ==
    /\ tm_pc = "idle"
    /\ tm_path' = path
    /\ tm_n' = n
    /\ tm_crops' = IF path = "ml" THEN first ELSE 0
    /\ tm_pc' = IF path = "ml" THEN "fit" ELSE "sampling"
    /\ UNCHANGED <<tm_fits, tm_frame, tm_log>>
    /\ UNCHANGED notTeam

\* One strided frame of the sampling loop: its player crops are collected.
TeamSample(k) ==
    /\ tm_pc = "sampling"
    /\ tm_crops + k <= MaxCrops
    /\ tm_crops' = tm_crops + k
    /\ UNCHANGED <<tm_pc, tm_path, tm_n, tm_fits, tm_frame, tm_log>>
    /\ UNCHANGED notTeam

\* The sampling loop ends (generator exhausted, or more than 500 crops).
TeamSampleEnd ==
    /\ tm_pc = "sampling"
    /\ tm_pc' = "fit"
    /\ UNCHANGED <<tm_path, tm_n, tm_crops, tm_fits, tm_frame, tm_log>>
    /\ UNCHANGED notTeam

\* The frame loop is entered without fitting the model.
TeamFitSkipped(ok) ==
    /\ tm_pc = "fit"
    /\ tm_pc' = "loop"
    /\ UNCHANGED <<tm_path, tm_n, tm_crops, tm_fits, tm_frame, tm_log>>
    /\ UNCHANGED notTeam

\* team_classifier.fit(crops) / team_assigner.assign_team_color(...); a fit
\* without any crop may raise (ok = FALSE).
TeamFit(ok) ==
    /\ tm_pc = "fit"
    /\ ok \/ tm_crops = 0
    /\ tm_fits' = IF ok THEN tm_fits + 1 ELSE tm_fits
    /\ tm_pc' = IF ok THEN "loop" ELSE "raised"
    /\ UNCHANGED <<tm_path, tm_n, tm_crops, tm_frame, tm_log>>
    /\ UNCHANGED notTeam

\* The calls to predict / get_player_team a frame with these player labels
\* makes: enhanced predicts once for a frame with players, ml asks once per
\* player.
PredictCalls(path, labels) ==
    IF path = "ml" THEN Len(labels)
    ELSE IF Len(labels) > 0 THEN 1 ELSE 0

\* One frame of the frame loop.
TeamPredict(labels) ==
    /\ tm_pc = "loop"
    /\ tm_frame < tm_n
    /\ tm_log' = Append(tm_log, [frame |-> tm_frame,
                                 calls |-> PredictCalls(tm_path, labels),
                                 fits |-> tm_fits,
                                 labels |-> labels])
    /\ tm_frame' = tm_frame + 1
    /\ UNCHANGED <<tm_pc, tm_path, tm_n, tm_crops, tm_fits>>
    /\ UNCHANGED notTeam

TeamReturn ==
    /\ tm_pc = "loop"
    /\ tm_frame >= tm_n
    /\ tm_pc' = "done"
    /\ UNCHANGED <<tm_path, tm_n, tm_crops, tm_fits, tm_frame, tm_log>>
    /\ UNCHANGED notTeam

TeamIdle ==
    /\ tm_pc = "idle"
    /\ tm_path = "ml"
    /\ tm_n = 0
    /\ tm_crops = 0
    /\ tm_fits = 0
    /\ tm_frame = 0
    /\ tm_log = <<>>

NextTeam ==
    \/ \E path \in {"enhanced", "ml"}, n \in 1..MaxTeamFrames, first \in 0..MaxCrops :
          TeamBegin(path, n, first)
    \/ \E k \in 0..1 : TeamSample(k)
    \/ TeamSampleEnd
    \/ \E ok \in BOOLEAN : TeamFit(ok)
    \/ \E labels \in FrameLabels : TeamPredict(labels)
    \/ TeamReturn

(***************************************************************************)
(* resolve_goalkeepers_team_id                                             *)
(***************************************************************************)

\* Maximal numbers of outfield players and of goalkeepers of a frame.
MaxOutfield == 2
MaxKeepers == 2

\* Bottom-centre anchors of outfield players and of goalkeepers (pixels).
OutfieldAnchors == {<<0, 0>>, <<10, 0>>, <<4, 6>>}
KeeperAnchors == {<<1, 0>>, <<9, 0>>}

OutfieldPlayers ==
    UNION {[1..k -> {[xy |-> a, team |-> t] : a \in OutfieldAnchors, t \in TeamLabels}] :
              k \in 0..MaxOutfield}
Keepers == UNION {[1..k -> KeeperAnchors] : k \in 1..MaxKeepers}

\* players_xy[players_team_id == team]: the indices selected.
OfTeam(players, team) == {i \in 1..Len(players) : players[i].team = team}

RECURSIVE SumXY(_, _)
SumXY(players, idx) ==
    IF idx = {} THEN <<0, 0>>
    ELSE LET i == CHOOSE j \in idx : TRUE
             rest == SumXY(players, idx \ {i})
         IN  <<rest[1] + players[i].xy[1], rest[2] + players[i].xy[2]>>

\* The squared distance from g to the mean of n points of sum s, times n * n.
ScaledDistance2(g, s, n) ==
    (g[1] * n - s[1]) * (g[1] * n - s[1]) + (g[2] * n - s[2]) * (g[2] * n - s[2])

\* dist_0 < dist_1.  The mean of an empty selection is nan, the norm of a
\* difference with nan is nan, and a comparison with nan is False.
Dist0Less(players, g) ==
    LET t0 == OfTeam(players, 0)
        t1 == OfTeam(players, 1)
        n0 == Cardinality(t0)
        n1 == Cardinality(t1)
    IN  /\ n0 > 0
        /\ n1 > 0
        /\ ScaledDistance2(g, SumXY(players, t0), n0) * n1 * n1
              < ScaledDistance2(g, SumXY(players, t1), n1) * n0 * n0

\* resolve_goalkeepers_team_id(players, players_team_id, goalkeepers)
ResolveGoalkeepersTeamId(players, keepers) ==
    [k \in 1..Len(keepers) |-> IF Dist0Less(players, keepers[k]) THEN 0 ELSE 1]

\* A frame with goalkeepers is classified.
KeeperResolve(players, keepers) ==
    /\ gk_pc = "idle"
    /\ gk_players' = players
    /\ gk_keepers' = keepers
    /\ goalkeepers_team_id' = ResolveGoalkeepersTeamId(players, keepers)
    /\ gk_pc' = "resolved"
    /\ UNCHANGED notKeeper

\* The next frame.
KeeperNext ==
    /\ gk_pc = "resolved"
    /\ gk_pc' = "idle"
    /\ UNCHANGED <<gk_players, gk_keepers, goalkeepers_team_id>>
    /\ UNCHANGED notKeeper

KeeperIdle ==
    /\ gk_pc = "idle"
    /\ gk_players = <<>>
    /\ gk_keepers = <<>>
    /\ goalkeepers_team_id = <<>>

NextKeeper ==
    \/ \E players \in OutfieldPlayers, keepers \in Keepers : KeeperResolve(players, keepers)
    \/ KeeperNext

(***************************************************************************)
(* The stages of process_video / main, one after the other                 *)
(***************************************************************************)

\* Maximal number of frames of the video.
MaxPipeFrames == 2

\* The analytical stages in the order the speed/distance stage comes last.
StagesSpeedLast ==
    <<"tracking", "positions", "camera_motion", "position_adjustment",
      "perspective_transform", "ball_interpolation", "team_classification",
      "ball_possession", "speed_distance">>

\* The analytical stages (steps 3 to 10), in the order of the statements.
Stages ==
    <<"tracking", "positions", "camera_motion", "position_adjustment",
      "perspective_transform", "ball_interpolation", "speed_distance",
      "team_classification", "ball_possession">>

\* What follows them: rendering and saving; process_video also persists.
OutputStages(e) ==
    IF e = "main" THEN <<"render", "save_video">>
    ELSE <<"render", "save_video", "save_tracking", "summary">>

AllStages(e) == Stages \o OutputStages(e)

\* The video was read (steps 1 and 2): n frames.
PipeBegin(e, n) ==
    /\ pipe_pc = "idle"
    /\ pipe_entry' = e
    /\ pipe_n' = n
    /\ pipe_stage' = 1
    /\ pipe_frame' = 0
    /\ pipe_pc' = "run"
    /\ UNCHANGED pipe_done
    /\ UNCHANGED notPipe

\* The running stage goes through one more frame.
PipeFrame ==
    /\ pipe_pc = "run"
    /\ pipe_frame < pipe_n
    /\ pipe_frame' = pipe_frame + 1
    /\ UNCHANGED <<pipe_pc, pipe_entry, pipe_n, pipe_stage, pipe_done>>
    /\ UNCHANGED notPipe

\* The running stage returns; the next statement starts the next stage.
PipeStageEnd ==
    /\ pipe_pc = "run"
    /\ pipe_frame = pipe_n
    /\ pipe_done' = Append(pipe_done,
          [stage |-> AllStages(pipe_entry)[pipe_stage], frames |-> pipe_frame])
    /\ IF pipe_stage = Len(AllStages(pipe_entry))
         THEN /\ pipe_pc' = "done"
              /\ UNCHANGED <<pipe_stage, pipe_frame>>
         ELSE /\ pipe_stage' = pipe_stage + 1
              /\ pipe_frame' = 0
              /\ UNCHANGED pipe_pc
    /\ UNCHANGED <<pipe_entry, pipe_n>>
    /\ UNCHANGED notPipe

\* The running stage raises: the run ends there.
PipeRaise ==
    /\ pipe_pc = "run"
    /\ pipe_pc' = "raised"
    /\ UNCHANGED <<pipe_entry, pipe_n, pipe_stage, pipe_frame, pipe_done>>
    /\ UNCHANGED notPipe

PipeIdle ==
    /\ pipe_pc = "idle"
    /\ pipe_entry = "main"
    /\ pipe_n = 0
    /\ pipe_stage = 0
    /\ pipe_frame = 0
    /\ pipe_done = <<>>

NextPipe ==
    \/ \E e \in {"main", "process_video"}, n \in 1..MaxPipeFrames : PipeBegin(e, n)
    \/ PipeFrame
    \/ PipeStageEnd
    \/ PipeRaise

(***************************************************************************)
(* The background job processor (job_processor.py): one polling thread,    *)
(* one thread per picked-up job, and stop().  The steps are the points     *)
(* where the threads touch shared state: self.running, self.active_jobs,   *)
(* self.job_lock and the rows of the jobs table.  A "with self.job_lock"   *)
(* block that does not wait inside is one step taken when the lock is      *)
(* free; stop() keeps the lock over its joins, so it holds it across       *)
(* steps.  One start()/stop() cycle of one processor is followed.          *)
(***************************************************************************)
MaxJobs == 2
MaxThreads == 3

\* MAX_CONCURRENT_JOBS of the environment (2 when it is not set).
max_concurrent_jobs == 1

JobIds == 1 .. MaxJobs

\* The analysis_scope column of a jobs row.
ScopeOf(j) == IF j % 2 = 1 THEN "preview" ELSE "full"

\* The status column of a jobs row: 'queued' until a status is written.
StatusOf(j) == IF job_log[j] = <<>> THEN "queued" ELSE job_log[j][Len(job_log[j])]

QueuedOf(scope) ==
    SelectSeq([j \in JobIds |-> j],
              LAMBDA j : StatusOf(j) = "queued" /\ ScopeOf(j) = scope)

\* _get_queued_jobs: the queued preview jobs, then the queued full jobs.
GetQueuedJobs == QueuedOf("preview") \o QueuedOf("full")

\* self.active_jobs is a dict job_id -> thread, kept as a set of pairs.
ActiveIds(active) == {p[1] : p \in active}

ActivePut(active, j, t) == {p \in active : p[1] # j} \cup {<<j, t>>}

CanStartNotActive(active, j) == j \notin ActiveIds(active)

\* The test made under the lock before a job thread is started.
CanStart(active, j) ==
    /\ Cardinality(active) < max_concurrent_jobs
    /\ j \notin ActiveIds(active)

IsAlive(t) == job_threads[t].pc # "done"

\* What _get_match_details finds, and what run_enhanced_analysis returns.
Matches == {"missing", "not_ready", "ready"}

AnalysisResults == [video_path : BOOLEAN, error : BOOLEAN]

NoResult == [video_path |-> FALSE, error |-> FALSE]

\* The terminal status _process_job writes.
JobOutcome(m, r) ==
    IF m = "missing" THEN "failed"
    ELSE IF m = "not_ready" THEN "cancelled"
    ELSE IF r.video_path /\ ~r.error THEN "completed"
    ELSE "failed"

\* The statuses written after the first 'running': the progress updates of
\* an analysis that was started write 'running' again.
StatusWrites(m, r) ==
    IF m = "ready" THEN <<"running", JobOutcome(m, r)>> ELSE <<JobOutcome(m, r)>>

\* start(): the polling thread is created.
JobStart ==
    /\ poll_pc = "off"
    /\ stop_pc = "idle"
    /\ ~job_running
    /\ job_running' = TRUE
    /\ poll_pc' = "while"
    /\ UNCHANGED <<queued_jobs, poll_i, active_jobs, job_lock, job_threads,
                   job_log, stop_pc>>
    /\ UNCHANGED notJob

\* _process_jobs: "while self.running", then
\* queued_jobs = self._get_queued_jobs(); a failed query returns [].
PollWhile(ok) ==
    /\ poll_pc = "while"
    /\ IF job_running
         THEN /\ queued_jobs' = IF ok THEN GetQueuedJobs ELSE <<>>
              /\ poll_pc' = "cleanup"
         ELSE /\ ok
              /\ poll_pc' = "exited"
              /\ UNCHANGED queued_jobs
    /\ UNCHANGED <<job_running, poll_i, active_jobs, job_lock, job_threads,
                   job_log, stop_pc>>
    /\ UNCHANGED notJob

\* _cleanup_finished_jobs: entries of threads that are not alive go.
PollCleanup ==
    /\ poll_pc = "cleanup"
    /\ job_lock = "free"
    /\ active_jobs' = {p \in active_jobs : IsAlive(p[2])}
    /\ poll_pc' = "scan"
    /\ UNCHANGED <<job_running, queued_jobs, poll_i, job_lock, job_threads,
                   job_log, stop_pc>>
    /\ UNCHANGED notJob

\* "for job in queued_jobs: if not self.running: break"; after the loop
\* time.sleep(5), and the list is dropped.
PollScan ==
    /\ poll_pc = "scan"
    /\ IF poll_i > Len(queued_jobs) \/ ~job_running
         THEN /\ poll_pc' = "while"
              /\ queued_jobs' = <<>>
              /\ poll_i' = 1
         ELSE /\ poll_pc' = "start"
              /\ UNCHANGED <<queued_jobs, poll_i>>
    /\ UNCHANGED <<job_running, active_jobs, job_lock, job_threads, job_log,
                   stop_pc>>
    /\ UNCHANGED notJob

\* The locked block of the loop: start a thread for the job and enter it
\* in active_jobs, or leave the job for a later round.
PollStart ==
    /\ poll_pc = "start"
    /\ job_lock = "free"
    /\ LET j == queued_jobs[poll_i]
           t == Len(job_threads) + 1
       IN IF CanStart(active_jobs, j)
            THEN /\ Len(job_threads) < MaxThreads
                 /\ job_threads' = Append(job_threads,
                        [job |-> j, pc |-> "begin", match |-> "none",
                         result |-> NoResult, after_stop |-> stop_pc # "idle"])
                 /\ active_jobs' = ActivePut(active_jobs, j, t)
            ELSE UNCHANGED <<job_threads, active_jobs>>
    /\ poll_i' = poll_i + 1
    /\ poll_pc' = "scan"
    /\ UNCHANGED <<job_running, queued_jobs, job_lock, job_log, stop_pc>>
    /\ UNCHANGED notJob

\* _process_job: self._update_job_status(job_id, "running", 0).
ThreadBegin(t) ==
    /\ t \in 1 .. Len(job_threads)
    /\ job_threads[t].pc = "begin"
    /\ job_log' = [job_log EXCEPT ![job_threads[t].job] = Append(@, "running")]
    /\ job_threads' = [job_threads EXCEPT ![t].pc = "work"]
    /\ UNCHANGED <<job_running, poll_pc, queued_jobs, poll_i, active_jobs,
                   job_lock, stop_pc>>
    /\ UNCHANGED notJob

\* _process_job from the match lookup to its last status write.
ThreadWork(t, m, r) ==
    /\ t \in 1 .. Len(job_threads)
    /\ job_threads[t].pc = "work"
    /\ m # "ready" => r = NoResult
    /\ job_log' = [job_log EXCEPT ![job_threads[t].job] = @ \o StatusWrites(m, r)]
    /\ job_threads' = [job_threads EXCEPT ![t].pc = "finally",
                                          ![t].match = m,
                                          ![t].result = r]
    /\ UNCHANGED <<job_running, poll_pc, queued_jobs, poll_i, active_jobs,
                   job_lock, stop_pc>>
    /\ UNCHANGED notJob

\* _process_job_wrapper, finally: under the lock the thread takes its job
\* out of active_jobs, then it ends.
ThreadFinally(t) ==
    /\ t \in 1 .. Len(job_threads)
    /\ job_threads[t].pc = "finally"
    /\ job_lock = "free"
    /\ active_jobs' = {p \in active_jobs : p[1] # job_threads[t].job}
    /\ job_threads' = [job_threads EXCEPT ![t].pc = "done",
                                          ![t].match = "none",
                                          ![t].result = NoResult]
    /\ UNCHANGED <<job_running, poll_pc, queued_jobs, poll_i, job_lock,
                   job_log, stop_pc>>
    /\ UNCHANGED notJob

\* stop(): self.running = False.
StopCall ==
    /\ stop_pc = "idle"
    /\ poll_pc # "off"
    /\ job_running' = FALSE
    /\ stop_pc' = "check"
    /\ UNCHANGED <<poll_pc, queued_jobs, poll_i, active_jobs, job_lock,
                   job_threads, job_log>>
    /\ UNCHANGED notJob

\* "if self.active_jobs", read without the lock, then "with
\* self.job_lock"; nobody else keeps the lock, so it is there to take.
StopCheck ==
    /\ stop_pc = "check"
    /\ job_lock = "free"
    /\ IF active_jobs # {}
         THEN /\ job_lock' = "stop"
              /\ stop_pc' = "joining"
         ELSE /\ stop_pc' = "join_poll"
              /\ UNCHANGED job_lock
    /\ UNCHANGED <<job_running, poll_pc, queued_jobs, poll_i, active_jobs,
                   job_threads, job_log>>
    /\ UNCHANGED notJob

\* thread.join(timeout=30) for every entry, inside the locked block.  A
\* job's work ends within the timeout, so a join returns when its thread
\* has ended, or by the timeout when its thread waits for the lock in its
\* finally block.  The lock is released after the last join.
StopJoinJobs ==
    /\ stop_pc = "joining"
    /\ \A p \in active_jobs : job_threads[p[2]].pc \in {"finally", "done"}
    /\ job_lock' = "free"
    /\ stop_pc' = "join_poll"
    /\ UNCHANGED <<job_running, poll_pc, queued_jobs, poll_i, active_jobs,
                   job_threads, job_log>>
    /\ UNCHANGED notJob

\* "if self.thread: self.thread.join()", then stop() returns.
StopJoinPoll ==
    /\ stop_pc = "join_poll"
    /\ poll_pc = "exited"
    /\ stop_pc' = "returned"
    /\ UNCHANGED <<job_running, poll_pc, queued_jobs, poll_i, active_jobs,
                   job_lock, job_threads, job_log>>
    /\ UNCHANGED notJob

JobIdle ==
    /\ job_running = FALSE
    /\ poll_pc = "off"
    /\ queued_jobs = <<>>
    /\ poll_i = 1
    /\ active_jobs = {}
    /\ job_lock = "free"
    /\ job_threads = <<>>
    /\ job_log = [j \in JobIds |-> <<>>]
    /\ stop_pc = "idle"

NextJob ==
    \/ JobStart
    \/ \E ok \in BOOLEAN : PollWhile(ok)
    \/ PollCleanup
    \/ PollScan
    \/ PollStart
    \/ \E t \in 1 .. MaxThreads : ThreadBegin(t)
    \/ \E t \in 1 .. MaxThreads, m \in Matches, r \in AnalysisResults :
          ThreadWork(t, m, r)
    \/ \E t \in 1 .. MaxThreads : ThreadFinally(t)
    \/ StopCall
    \/ StopCheck
    \/ StopJoinJobs
    \/ StopJoinPoll

(***************************************************************************)
(* The chunk upload endpoint (main.py, upload_video_chunk) for one match   *)
(* whose row exists.  The handler is a coroutine on the one event loop of  *)
(* uvicorn.run(app): its only await is the read of the request's file, and *)
(* what follows (the file write, the updates of the matches row, the sleep *)
(* and the select and insert on the jobs table) are blocking calls, so     *)
(* from there on a request runs without another request in between.        *)
(***************************************************************************)
MaxChunks == 2
MaxInflight == 2
MaxLastUploads == 2
max_total_chunks == 100

ChunkIndexes == -1 .. MaxChunks

TotalChunks == (0 .. MaxChunks) \cup {max_total_chunks + 1}

\* The two parameter tests; a request that fails one gets status 400.
ValidChunk(chunk_index, total_chunks) ==
    /\ ~(chunk_index < 0 \/ chunk_index >= total_chunks)
    /\ ~(total_chunks <= 0 \/ total_chunks > max_total_chunks)

IsLastChunk(req) == req.chunk_index = req.total_chunks - 1

\* The update of the matches row made for every chunk.
ProgressUpdate(row, chunk_index, total_chunks) ==
    [row EXCEPT !.video_chunks_uploaded = chunk_index + 1,
                !.video_chunks_total = total_chunks]

\* The update made for the last chunk.
FinalUpdate(row, total_chunks) ==
    [row EXCEPT !.upload_status = "uploaded",
                !.video_chunks_uploaded = total_chunks,
                !.video_chunks_total = total_chunks]

JobExistsNever(n) == FALSE

\* existing_jobs.data is not empty: the match has an enhanced_analysis job.
JobExists(n) == n > 0

RemoveAt(s, k) == [i \in 1 .. Len(s) - 1 |-> IF i < k THEN s[i] ELSE s[i + 1]]

\* A request arrives: it is rejected by the parameter tests, or it goes
\* on to read its file.
UploadBegin(chunk_index, total_chunks) ==
    /\ IF ValidChunk(chunk_index, total_chunks)
         THEN /\ Len(up_pending) < MaxInflight
              /\ up_pending' = Append(up_pending,
                     [chunk_index |-> chunk_index, total_chunks |-> total_chunks])
              /\ UNCHANGED up_response
         ELSE /\ up_response' = 400
              /\ UNCHANGED up_pending
    /\ UNCHANGED <<chunk_files, match_row, jobs_rows, last_uploads, up_overlap>>
    /\ UNCHANGED notUpload

\* The file of request k has been read: the chunk is stored, the row is
\* updated and, for the last chunk, the upload is finalized and the job is
\* created unless one exists; a failed insert is logged and passed over.
UploadFinish(k, insert_ok) ==
    /\ k \in 1 .. Len(up_pending)
    /\ LET req == up_pending[k]
           row == ProgressUpdate(match_row, req.chunk_index, req.total_chunks)
       IN /\ chunk_files' = chunk_files \cup {req.chunk_index}
          /\ IF IsLastChunk(req)
               THEN /\ last_uploads < MaxLastUploads
                    /\ last_uploads' = last_uploads + 1
                    /\ match_row' = FinalUpdate(row, req.total_chunks)
                    /\ jobs_rows' = IF ~JobExists(jobs_rows) /\ insert_ok
                                      THEN jobs_rows + 1 ELSE jobs_rows
                    /\ up_overlap' = (up_overlap \/
                          \E i \in 1 .. Len(up_pending) :
                              i # k /\ IsLastChunk(up_pending[i]))
               ELSE /\ insert_ok
                    /\ match_row' = row
                    /\ UNCHANGED <<jobs_rows, last_uploads, up_overlap>>
    /\ up_pending' = RemoveAt(up_pending, k)
    /\ up_response' = 200
    /\ UNCHANGED notUpload

UploadIdle ==
    /\ up_pending = <<>>
    /\ chunk_files = {}
    /\ match_row = [upload_status |-> "pending", video_chunks_uploaded |-> 0,
                    video_chunks_total |-> 0]
    /\ jobs_rows = 0
    /\ up_response = 0
    /\ last_uploads = 0
    /\ up_overlap = FALSE

NextUpload ==
    \/ \E chunk_index \in ChunkIndexes, total_chunks \in TotalChunks :
          UploadBegin(chunk_index, total_chunks)
    \/ \E k \in 1 .. MaxInflight, insert_ok \in BOOLEAN : UploadFinish(k, insert_ok)

(***************************************************************************)
(* Jersey numbers (enhanced_jersey_manager.py): tracker_to_jersey and the  *)
(* two pools of free numbers, with the numbers assign_jersey has returned  *)
(* for every tracker.                                                      *)
(***************************************************************************)
MaxTrackers == 3

TrackerIds == 1 .. MaxTrackers

\* 0 or 1 from the team classifier, 2 for a referee.
Classifications == {0, 1, 2}

TeamAPool == 1 .. 20

TeamBPool == 21 .. 40

\* get_team_id_from_classification; "none" is Python's None.
GetTeamIdFromClassification(classified_team) ==
    IF classified_team = 0 THEN "team_a"
    ELSE IF classified_team = 1 THEN "team_b"
    ELSE "none"

MinOf(S) == CHOOSE x \in S : \A y \in S : x <= y

\* The number assign_jersey returns; 0 in tracker_to_jersey is "no entry".
JerseyFor(tracker_id, classified_team) ==
    LET team_id == GetTeamIdFromClassification(classified_team)
    IN IF tracker_to_jersey[tracker_id] # 0 THEN tracker_to_jersey[tracker_id]
       ELSE IF team_id = "none" THEN tracker_id
       ELSE IF available_jerseys[team_id] # {}
              THEN MinOf(available_jerseys[team_id])
       ELSE tracker_id

\* assign_jersey(tracker_id, classified_team).
AssignJersey(tracker_id, classified_team) ==
    LET team_id == GetTeamIdFromClassification(classified_team)
        jersey_num == JerseyFor(tracker_id, classified_team)
        stored == /\ tracker_to_jersey[tracker_id] = 0
                  /\ team_id # "none"
                  /\ available_jerseys[team_id] # {}
    IN /\ IF stored
            THEN /\ available_jerseys' =
                       [available_jerseys EXCEPT ![team_id] = @ \ {jersey_num}]
                 /\ tracker_to_jersey' =
                       [tracker_to_jersey EXCEPT ![tracker_id] = jersey_num]
            ELSE UNCHANGED <<available_jerseys, tracker_to_jersey>>
       /\ jersey_first' = IF jersey_first[tracker_id] = 0
                            THEN [jersey_first EXCEPT ![tracker_id] = jersey_num]
                            ELSE jersey_first
       /\ jersey_last' = [jersey_last EXCEPT ![tracker_id] = jersey_num]
       /\ UNCHANGED notJersey

JerseyIdle ==
    /\ tracker_to_jersey = [t \in TrackerIds |-> 0]
    /\ available_jerseys = [team_a |-> TeamAPool, team_b |-> TeamBPool]
    /\ jersey_first = [t \in TrackerIds |-> 0]
    /\ jersey_last = [t \in TrackerIds |-> 0]

NextJersey ==
    \E tracker_id \in TrackerIds, classified_team \in Classifications :
        AssignJersey(tracker_id, classified_team)

(***************************************************************************)
(* Specifications                                                          *)
(***************************************************************************)

\* Every component starts idle.  Spec interleaves all components; each property
\* is stated for the specification of the one component it is about.
Init ==
    /\ VTIdle /\ CamIdle /\ PossIdle /\ SaveIdle /\ RvIdle
    /\ ExpIdle /\ BallIdle /\ DistIdle /\ AssignIdle /\ AdjustIdle
    /\ TeamIdle
    /\ KeeperIdle
    /\ PipeIdle
    /\ JobIdle
    /\ UploadIdle
    /\ JerseyIdle

Next ==
    \/ NextVT \/ NextCam \/ NextPoss \/ NextSave \/ NextRead
    \/ NextExport \/ NextBall \/ NextDist \/ NextAssign \/ NextAdjust
    \/ NextTeam
    \/ NextKeeper
    \/ NextPipe
    \/ NextJob
    \/ NextUpload
    \/ NextJersey

Spec == Init /\ [][Next]_vars

SpecVT == Init /\ [][NextVT]_vars
SpecCam == Init /\ [][NextCam]_vars
SpecPoss == Init /\ [][NextPoss]_vars
SpecSave == Init /\ [][NextSave]_vars
SpecRead == Init /\ [][NextRead]_vars
SpecExport == Init /\ [][NextExport]_vars
SpecBall == Init /\ [][NextBall]_vars
SpecDist == Init /\ [][NextDist]_vars
SpecAssign == Init /\ [][NextAssign]_vars
SpecAdjust == Init /\ [][NextAdjust]_vars
SpecTeam == Init /\ [][NextTeam]_vars
SpecKeeper == Init /\ [][NextKeeper]_vars
SpecPipe == Init /\ [][NextPipe]_vars
SpecJob == Init /\ [][NextJob]_vars
SpecUpload == Init /\ [][NextUpload]_vars
SpecJersey == Init /\ [][NextJersey]_vars

(***************************************************************************)
(* Properties                                                              *)
(***************************************************************************)

\* pixel_vertices in fixed-point units.
ScaledVertices(vertices) ==
    [i \in 1..Len(vertices) |-> <<vertices[i][1] * Sub, vertices[i][2] * Sub>>]

\* The point lies outside the quadrilateral (its boundary counts as inside).
LiesOutside(vertices, point) == PointPolygonTest(ScaledVertices(vertices), point) < 0

\* C1: every observation visited by add_transformed_position_to_tracks has a
\* null position_transformed if and only if its position_adjusted lies outside
\* the quadrilateral pixel_vertices, boundary points counting as inside.
C1_NullIffOutside ==
    \A i \in 1..Len(vt_tracks) :
        LET o == vt_tracks[i]
        IN  o.position_adjusted # None =>
               ((o.position_transformed = None)
                   <=> LiesOutside(pixel_vertices, o.position_adjusted))

\* C2: while and after get_camera_movement runs over a non-empty frame list,
\* the list has one vector per frame, its entry for frame 0 is (0,0), and the
\* last iteration changed no entry but that of its own frame.
C2_FirstEntryZero ==
    (cam_pc \in {"loop", "done", "raised"} /\ cam_n >= 1) =>
        /\ Len(camera_movement) = cam_n
        /\ camera_movement[1] = <<0, 0>>
        /\ cam_last # None =>
              \A j \in 1..cam_n :
                  j # cam_last.frame + 1 => camera_movement[j] = cam_last.before[j]

C2_Witness ==
    /\ cam_pc = "done"
    /\ cam_n >= 2
    /\ cam_last # None
    /\ cam_last.recorded
    /\ camera_movement[cam_last.frame + 1] # <<0, 0>>

\* The largest squared displacement among the pairs of an iteration.
LargestDistance2(pairs) ==
    CHOOSE d \in {MeasureDistance2(pairs[i].new, pairs[i].old) : i \in 1..Len(pairs)} :
        \A i \in 1..Len(pairs) : MeasureDistance2(pairs[i].new, pairs[i].old) <= d

\* The vector recorded for a frame is that of a pair of largest displacement
\* (the vector of a pair is measure_xy_distance(old, new), as the code takes it).
IsVectorOfLargest(pairs, v) ==
    \E i \in 1..Len(pairs) :
        /\ MeasureDistance2(pairs[i].new, pairs[i].old) = LargestDistance2(pairs)
        /\ v = MeasureXYDistance(pairs[i].old, pairs[i].new)

\* C3 as stated: for each frame k >= 1 with tracked pairs, the motion reported
\* is the vector of the pair with the largest displacement magnitude.
C3_LargestPairAlways ==
    (cam_last # None /\ cam_last.pairs # <<>>) =>
        IsVectorOfLargest(cam_last.pairs, camera_movement[cam_last.frame + 1])

\* C3 amended: for each frame k >= 1 with tracked pairs, if the largest
\* displacement magnitude exceeds minimum_distance the motion reported is the
\* vector of a pair with that largest displacement (neither mean nor sum);
\* otherwise it is (0,0).
C3_LargestPairAboveMinimum ==
    (cam_last # None /\ cam_last.pairs # <<>>) =>
        LET v == camera_movement[cam_last.frame + 1]
        IN  IF LargestDistance2(cam_last.pairs) > minimum_distance * minimum_distance
              THEN IsVectorOfLargest(cam_last.pairs, v)
              ELSE v = <<0, 0>>

\* Several pairs, one below 5 px and one of 40 px: the 40 px vector is recorded.
C3_Witness ==
    /\ cam_last # None
    /\ Len(cam_last.pairs) >= 2
    /\ \E i \in 1..Len(cam_last.pairs) :
          MeasureDistance2(cam_last.pairs[i].new, cam_last.pairs[i].old) < 25
    /\ LargestDistance2(cam_last.pairs) = 1600
    /\ camera_movement[cam_last.frame + 1] \in {<<0 - 40, 0>>, <<24, 0 - 32>>}

\* C4: when process_video is done, team_ball_control holds one value per frame
\* and the frames the summary credits to the two teams add up to the frames.
C4_LedgerSumsToFrames ==
    (poss_pc = "done" /\ entry = "process_video") =>
        /\ Len(team_ball_control) = poss_n
        /\ summary.team_1_control + summary.team_2_control = poss_n

\* C5: a frame k >= 1 without an assigned player records the team of frame
\* k-1; a frame with an assigned player records that player's team.
C5_StickyPossession ==
    \A k \in 1..Len(team_ball_control) :
        /\ (assigned_log[k] = 0 - 1 /\ k >= 2) =>
              team_ball_control[k] = team_ball_control[k - 1]
        /\ assigned_log[k] # 0 - 1 => team_ball_control[k] = assigned_log[k]

C5_Witness ==
    /\ poss_pc = "done"
    /\ Len(team_ball_control) >= 3
    /\ assigned_log[1] = 0
    /\ assigned_log[2] = 0 - 1
    /\ assigned_log[3] = 0 - 1
    /\ team_ball_control[3] = 0

\* C6: when frame 0 has no assigned player the loop does not raise, whichever
\* the entry point, and records the default team for frame 0.
C6_FirstFrameDefault ==
    (Len(assigned_log) >= 1 /\ assigned_log[1] = 0 - 1) =>
        /\ poss_pc # "raised"
        /\ Len(team_ball_control) >= 1
        /\ team_ball_control[1] = FirstFrameDefault

\* C7: a run in which no frame has a ball detection does not end in an
\* unhandled lookup error and does not credit every frame to one team.
C7_NoBallIsDistinct ==
    (~ball_seen /\ poss_pc \in {"done", "raised"}) =>
        /\ poss_pc # "raised"
        /\ summary # None =>
              /\ summary.team_1_control # summary.total_frames
              /\ summary.team_2_control # summary.total_frames

\* C8: whichever step of detect_field_corners fails, the constructor does not
\* raise and pixel_vertices are the proportional corners of the frame.
C8_DetectionFailureFallsBack ==
    (vt_pc # "new" /\ vt_frame # None /\ vt_failed # "none") =>
        /\ vt_pc = "ready"
        /\ pixel_vertices = ProportionalCorners(vt_frame[1], vt_frame[2])

\* C9: a run that ends reports success only with every record of every frame
\* persisted, and a run that fails leaves no row persisted.
C9_AllOrNothing ==
    /\ save_pc = "done" => (save_frame = save_n /\ db_rows = save_made)
    /\ save_pc = "raised" => db_rows = 0

\* C10 as stated: once the consecutive failures reach the limit the read
\* raises or yields no frames.
C10_LimitFailsRead ==
    (rv_stop = "consecutive" /\ rv_pc \in {"returned", "raised"}) =>
        (rv_pc = "raised" \/ rv_result = 0)

\* C10 amended: a failed read below the limits is skipped and decoding goes
\* on; once the consecutive failures reach max_consecutive_errors decoding
\* stops, and the read raises or yields no frames if fewer than min_frames
\* frames were decoded, and returns the frames decoded so far otherwise.
C10_LimitStopsRead ==
    /\ (rv_stop = "" /\ rv_pc # "start" /\ consecutive_errors < max_consecutive_errors
          /\ error_count <= max_total_errors) => rv_pc = "reading"
    /\ consecutive_errors >= max_consecutive_errors =>
          (rv_pc # "reading" /\ rv_stop = "consecutive")
    /\ (rv_stop = "consecutive" /\ rv_pc \in {"returned", "raised"}) =>
          IF frames_len < min_frames
            THEN rv_pc = "raised" \/ rv_result = 0
            ELSE rv_pc = "returned" /\ rv_result = frames_len

C10_Witness ==
    /\ rv_stop = "consecutive"
    /\ rv_pc = "returned"
    /\ rv_result >= min_frames
    /\ rv_skipped

\* Whether observation i of the save is a player whose position_transformed
\* is null.
NullTransformPlayer(i) ==
    /\ exp_obs[i].object_type = "player"
    /\ "position_transformed" \in DOMAIN exp_obs[i].data
    /\ exp_obs[i].data.position_transformed = None

\* C11: for every player observation whose pitch-transformed position is null,
\* _save_tracking_data emits a record whose x_transformed / y_transformed are
\* null and whose other fields are populated, and the save does not fail.
C11_NullTransformSaved ==
    \A i \in 1..Len(exp_obs) :
        NullTransformPlayer(i) =>
            /\ exp_pc # "raised"
            /\ i <= Len(exp_records)
            /\ exp_records[i].transformed = None
            /\ exp_records[i].object_type = "player"
            /\ exp_records[i].position = exp_obs[i].data.position
            /\ exp_records[i].team_id = exp_obs[i].data.team

\* Whether a transformed coordinate is the image of the observation's
\* position_adjusted.
FromAdjusted(data, transformed) ==
    /\ "position_adjusted" \in DOMAIN data
    /\ transformed = PerspectiveTransform(ExportVertices, data.position_adjusted)

\* C12: every pitch-transformed coordinate stored in the tracks or exported in
\* a player or ball record is derived from position_adjusted; a raw pixel
\* position is never exported as a transformed coordinate, also for an
\* observation that has no position_transformed entry.
C12_TransformedFromAdjusted ==
    /\ \A i \in 1..Len(exp_obs) :
          LET data == exp_obs[i].data
          IN  ("position_transformed" \in DOMAIN data
                  /\ data.position_transformed # None) =>
                 FromAdjusted(data, data.position_transformed)
    /\ \A i \in 1..Len(exp_records) :
          exp_records[i].transformed # None =>
              /\ FromAdjusted(exp_obs[i].data, exp_records[i].transformed)
              /\ exp_records[i].transformed # exp_obs[i].data.position

\* The labels the possession summary counts frames under.
SummaryLabels == {SummaryTeam1, SummaryTeam2}

\* C13: every team label a frame of the ledger carries is 0 or 1, and the
\* labels the possession summary consumes are from that same two-value set:
\* each frame's label is one the summary counts, and the summary counts no
\* other label.
C13_LabelsZeroOne ==
    /\ \A k \in 1..Len(team_ball_control) : team_ball_control[k] \in TeamLabels
    /\ (poss_pc = "done" /\ entry = "process_video") =>
          /\ SummaryLabels \subseteq TeamLabels
          /\ \A k \in 1..Len(team_ball_control) : team_ball_control[k] \in SummaryLabels

\* C14: interpolation fills every gap between two detections linearly between
\* the nearest detection before and after it (detections at frames 0 and 5 of
\* (50,50) and (150,150) give (70,70), (90,90), (110,110), (130,130)); a frame
\* before the first or after the last detection takes the nearest detection;
\* the result has a position for every frame and keeps the detections.
C14_LinearInterpolation ==
    bi_runs >= 1 =>
        /\ Len(ball_positions) = Len(bi_before)
        /\ \A f \in 1..Len(bi_before) :
              LET before == {i \in Known(bi_before) : i < f}
                  after == {j \in Known(bi_before) : j > f}
              IN  /\ ball_positions[f] # None
                  /\ bi_before[f] # None => ball_positions[f] = bi_before[f]
                  /\ (bi_before[f] = None /\ before # {} /\ after # {}) =>
                        LET i == Max(before)
                            j == Min(after)
                        IN  \A c \in 1..2 :
                               (ball_positions[f][c] - bi_before[i][c]) * (j - i)
                                  = (bi_before[j][c] - bi_before[i][c]) * (f - i)
                  /\ (bi_before[f] = None /\ before = {}) =>
                        ball_positions[f] = bi_before[Min(after)]
                  /\ (bi_before[f] = None /\ after = {}) =>
                        ball_positions[f] = bi_before[Max(before)]

\* The scenario: detections at frames 0 and 5 only.
C14_Witness ==
    /\ bi_runs = 1
    /\ bi_before = << <<50 * BallUnit, 50 * BallUnit>>, None, None, None, None,
                      <<150 * BallUnit, 150 * BallUnit>> >>
    /\ ball_positions = [f \in 1..6 |-> <<(30 + 20 * f) * BallUnit, (30 + 20 * f) * BallUnit>>]

\* C15: interpolating a track that has a position for every frame leaves it
\* unchanged.
C15_InterpolationIdempotent ==
    (bi_runs >= 1 /\ Known(bi_before) = 1..Len(bi_before)) => ball_positions = bi_before

\* The second run was given a track holding an interpolated position.
C15_Witness ==
    /\ bi_runs = 2
    /\ \E f \in 1..Len(bi_before) : bi_before[f] \notin BallDetections
    /\ \E f, g \in 1..Len(bi_before) : bi_before[f] # bi_before[g]

\* C16: the cumulative distance of a player track never decreases from a frame
\* to the next, and a frame whose pitch position is null leaves it as it was.
C16_DistanceNonDecreasing ==
    \A k \in 1..Len(sd_track) :
        LET previous == IF k = 1 THEN 0 ELSE sd_track[k - 1].distance
        IN  /\ sd_track[k].distance >= previous
            /\ sd_track[k].position_transformed = None => sd_track[k].distance = previous

\* A null frame after some distance was covered, and more distance after it.
C16_Witness ==
    /\ Len(sd_track) >= 4
    /\ sd_track[2].distance > 0
    /\ sd_track[3].position_transformed = None
    /\ sd_track[4].distance > sd_track[3].distance

\* The squared distance from the ball to the foot point of player i in frame fr.
FootDistance2(fr, i) == MeasureDistance2(fr.given[i].foot, fr.ball)

\* The players of frame fr whose has_ball flag is true.
HasBall(fr) == {i \in DOMAIN fr.players : Get(fr.players[i], "has_ball", FALSE)}

\* C17: in every frame the ball goes to a player of minimum ball-to-foot
\* distance if that distance is under the acceptance radius, to nobody
\* otherwise; has_ball is set on that player only, so at most one player of
\* a frame has it.
C17_NearestWithinRadius ==
    \A k \in 1..Len(pa_frames) :
        LET fr == pa_frames[k]
            ids == DOMAIN fr.given
            radius2 == max_player_ball_distance * max_player_ball_distance
        IN  /\ (\E i \in ids : FootDistance2(fr, i) < radius2) =>
                  /\ fr.assigned_player \in ids
                  /\ \A j \in ids :
                        FootDistance2(fr, fr.assigned_player) <= FootDistance2(fr, j)
            /\ (\A i \in ids : FootDistance2(fr, i) >= radius2) => fr.assigned_player = -1
            /\ HasBall(fr) = (IF fr.assigned_player = -1 THEN {} ELSE {fr.assigned_player})
            /\ Cardinality(HasBall(fr)) <= 1
            /\ DOMAIN fr.players = ids

\* The scenario: ball at (300,300), player 1 at (310,305), player 2 at (500,500).
C17_Witness ==
    \E k \in 1..Len(pa_frames) :
        /\ pa_frames[k].ball = <<300, 300>>
        /\ DOMAIN pa_frames[k].given = {1, 2}
        /\ pa_frames[k].given[1].foot = <<310, 305>>
        /\ pa_frames[k].given[2].foot = <<500, 500>>
        /\ pa_frames[k].assigned_player = 1
        /\ HasBall(pa_frames[k]) = {1}

\* The largest squared displacement of an iteration (0 without pairs).
MaxDistance2(pairs) == IF pairs = <<>> THEN 0 ELSE LargestDistance2(pairs)

\* What an iteration leaves when it records nothing / when it records.
LeftStationary ==
    /\ camera_movement[cam_last.frame + 1] = <<0, 0>>
    /\ old_features = cam_last.features_before

Refreshed ==
    /\ IsVectorOfLargest(cam_last.pairs, camera_movement[cam_last.frame + 1])
    /\ old_features.frame = cam_last.frame

\* C18 as stated: for each frame k >= 1, if the maximum displacement is below
\* the threshold (5 px) the vector of frame k stays (0,0) and the features are
\* not re-detected; at or above the threshold the maximum-displacement vector
\* is recorded at index k and the features are re-detected from frame k.
C18_AtOrAboveThreshold ==
    cam_last # None =>
        IF MaxDistance2(cam_last.pairs) < minimum_distance * minimum_distance
          THEN LeftStationary
          ELSE Refreshed

\* C18 amended: if the maximum displacement is at most the threshold the
\* vector of frame k stays (0,0) and the features are not re-detected; above
\* the threshold the maximum-displacement vector is recorded at index k and
\* the features are re-detected from frame k.
C18_AboveThreshold ==
    cam_last # None =>
        IF MaxDistance2(cam_last.pairs) <= minimum_distance * minimum_distance
          THEN LeftStationary
          ELSE Refreshed

\* Frame 1 moved and re-detected; frame 2 moves by exactly the threshold and
\* keeps the features of frame 1.
C18_Witness ==
    /\ cam_last # None
    /\ cam_last.frame = 2
    /\ cam_last.features_before.frame = 1
    /\ MaxDistance2(cam_last.pairs) = minimum_distance * minimum_distance
    /\ camera_movement[2] # <<0, 0>>
    /\ camera_movement[3] = <<0, 0>>
    /\ old_features.frame = 1

\* C19: add_adjust_positions_to_tracks gives the observation of frame f
\* position_adjusted = position - camera_movement_per_frame[f], componentwise,
\* from the vector of frame f alone, and changes neither position nor bbox
\* nor any other observation.
C19_AdjustByOwnFrame ==
    [][adj_frame' = adj_frame + 1 =>
          LET f == adj_frame + 1
              track_info == adj_tracks[f]
              adjusted == adj_tracks'[f]
          IN  /\ adjusted.position_adjusted =
                    <<track_info.position[1] - adj_cm[f][1],
                      track_info.position[2] - adj_cm[f][2]>>
              /\ adjusted.position = track_info.position
              /\ adjusted.bbox = track_info.bbox
              /\ DOMAIN adjusted = DOMAIN track_info \cup {"position_adjusted"}
              /\ \A g \in 1..Len(adj_tracks) : g # f => adj_tracks'[g] = adj_tracks[g]
              /\ Len(adj_tracks') = Len(adj_tracks)
              /\ adj_cm' = adj_cm]_vars

\* Two frames adjusted, both with a camera movement.
C19_Witness ==
    /\ adj_frame >= 2
    /\ adj_cm[1] # <<0, 0>>
    /\ adj_cm[2] # <<0, 0>>
    /\ adj_tracks[2].position_adjusted =
          <<adj_tracks[2].position[1] - adj_cm[2][1],
            adj_tracks[2].position[2] - adj_cm[2][2]>>

\* C20: the proportional corners of a W x H frame are four points within the
\* frame inset by 10% horizontally and 15% vertically; the bottom edge runs
\* from the left margin to the right margin and the top edge is narrower than
\* the bottom edge.
C20_ProportionalTrapezoid ==
    (vt_pc = "ready" /\ vt_frame # None
        /\ pixel_vertices = ProportionalCorners(vt_frame[1], vt_frame[2])) =>
        LET W == vt_frame[1]
            H == vt_frame[2]
            c == pixel_vertices
        IN  /\ Len(c) = 4
            /\ \A i \in 1..4 :
                  /\ 10 * c[i][1] >= W /\ 10 * c[i][1] <= 9 * W
                  /\ 100 * c[i][2] >= 15 * H /\ 100 * c[i][2] <= 85 * H
            /\ c[1][2] = c[4][2] /\ c[2][2] = c[3][2] /\ c[2][2] < c[1][2]
            /\ 10 * c[1][1] = W /\ 10 * c[4][1] = 9 * W
            /\ c[3][1] - c[2][1] < c[4][1] - c[1][1]

\* Which corner of a quadrilateral its i-th vertex is, by the side of the
\* centroid it lies on (y grows downward): <<left?, top?>>.
CornerOf(poly, i) ==
    LET sx == poly[1][1] + poly[2][1] + poly[3][1] + poly[4][1]
        sy == poly[1][2] + poly[2][2] + poly[3][2] + poly[4][2]
    IN  <<4 * poly[i][1] < sx, 4 * poly[i][2] < sy>>

\* C21: on both construction paths the i-th entry of pixel_vertices (from the
\* automatic detection, ordered top-left, top-right, bottom-right,
\* bottom-left, or from the proportional fallback) is the same corner of the
\* pitch as the i-th entry of target_vertices.
C21_SameCornerPaired ==
    (vt_pc = "ready" /\ vt_frame # None) =>
        \A i \in 1..4 : CornerOf(pixel_vertices, i) = CornerOf(TargetVertices, i)

\* C22: within a run the team model is fit exactly once, every predict /
\* get_player_team call is made after that fit, and no frame is labelled
\* before the fit or after a second fit.
C22_FitOnceBeforePredict ==
    /\ tm_fits <= 1
    /\ tm_pc \in {"loop", "done"} => tm_fits = 1
    /\ \A k \in 1..Len(tm_log) : tm_log[k].fits = 1

\* A finished run that predicted in two frames.
C22_Witness ==
    /\ tm_pc = "done"
    /\ Len(tm_log) >= 2
    /\ tm_log[1].calls > 0
    /\ tm_log[2].calls > 0

\* The teams that have an outfield player in the frame, and among them those
\* whose centroid is nearest to g.
TeamsPresent(players) == {t \in TeamLabels : OfTeam(players, t) # {}}

NearestTeams(players, g) ==
    {t \in TeamsPresent(players) :
        \A u \in TeamsPresent(players) :
            LET nt == Cardinality(OfTeam(players, t))
                nu == Cardinality(OfTeam(players, u))
            IN  ScaledDistance2(g, SumXY(players, OfTeam(players, t)), nt) * nu * nu
                   <= ScaledDistance2(g, SumXY(players, OfTeam(players, u)), nu) * nt * nt}

\* C23: resolve_goalkeepers_team_id returns one label per goalkeeper, 0 or 1,
\* and the label is a team whose outfield players' centroid is nearest to the
\* goalkeeper's anchor, also in a frame where one team has no outfield player.
C23_NearestCentroid ==
    gk_pc = "resolved" =>
        /\ Len(goalkeepers_team_id) = Len(gk_keepers)
        /\ \A k \in 1..Len(gk_keepers) :
              /\ goalkeepers_team_id[k] \in TeamLabels
              /\ TeamsPresent(gk_players) # {} =>
                    goalkeepers_team_id[k] \in NearestTeams(gk_players, gk_keepers[k])

\* Whether the stages finished so far follow the given order, each after the
\* one before it went through all frames.
FinishedInOrder(order) ==
    /\ \A k \in 1..Len(pipe_done) :
          /\ pipe_done[k].frames = pipe_n
          /\ \A i \in 1..Len(order) :
                pipe_done[k].stage = order[i] =>
                    \A h \in 1..(i - 1) :
                        \E g \in 1..(k - 1) : pipe_done[g].stage = order[h]
    /\ pipe_pc = "done" =>
          \A i \in 1..Len(order) : \E k \in 1..Len(pipe_done) : pipe_done[k].stage = order[i]

\* C24 as stated: the analytical stages run in the order tracking, camera
\* motion, position adjustment, perspective transform, ball interpolation,
\* team classification, ball possession, speed/distance, each only after the
\* previous one has finished over all frames.
C24_SpecOrder ==
    FinishedInOrder(<<"tracking", "camera_motion", "position_adjustment",
                      "perspective_transform", "ball_interpolation",
                      "team_classification", "ball_possession", "speed_distance">>)

\* C24 amended: the analytical stages run in the order tracking, camera
\* motion, position adjustment, perspective transform, ball interpolation,
\* speed/distance, team classification, ball possession, each only after the
\* previous one has finished over all frames.
C24_CodeOrder ==
    FinishedInOrder(<<"tracking", "camera_motion", "position_adjustment",
                      "perspective_transform", "ball_interpolation",
                      "speed_distance", "team_classification", "ball_possession">>)

\* A run of two frames that finished every stage.
C24_Witness ==
    /\ pipe_pc = "done"
    /\ pipe_n = 2
    /\ \E k \in 1..Len(pipe_done) : pipe_done[k].stage = "speed_distance"

(***************************************************************************)
(* The job processor.                                                      *)
(***************************************************************************)
AliveThreads == {t \in 1 .. Len(job_threads) : IsAlive(t)}

ThreadsOf(j) == {t \in 1 .. Len(job_threads) : job_threads[t].job = j}

C26_StopWaitsForJobs ==
    stop_pc = "returned" =>
        /\ poll_pc = "exited"
        /\ \A t \in 1 .. Len(job_threads) :
              ~IsAlive(t) /\ ~job_threads[t].after_stop

Terminal == {"completed", "failed", "cancelled"}

\* 'running', then nothing but 'running' until one terminal status ends it.
RunThenVerdict(log) ==
    log # <<>> =>
        /\ log[1] = "running"
        /\ \A i \in 1 .. Len(log) - 1 : log[i] = "running"

\* C27: a picked-up job gets 'running' and then exactly one terminal status,
\* nothing is written after that and the job is processed once; 'completed'
\* needs a video path and no error; a job whose match is not fully uploaded
\* is cancelled without analysis.
C27_OneRunOneVerdict ==
    /\ \A j \in JobIds :
          /\ RunThenVerdict(job_log[j])
          /\ Cardinality(ThreadsOf(j)) <= 1
    /\ \A t \in 1 .. Len(job_threads) :
          job_threads[t].pc = "finally" =>
              /\ StatusOf(job_threads[t].job) \in Terminal
              /\ StatusOf(job_threads[t].job) = "completed" =>
                    /\ job_threads[t].match = "ready"
                    /\ job_threads[t].result.video_path
                    /\ ~job_threads[t].result.error
              /\ job_threads[t].match = "not_ready" =>
                    /\ StatusOf(job_threads[t].job) = "cancelled"
                    /\ job_log[job_threads[t].job] = <<"running", "cancelled">>

(***************************************************************************)
(* The chunk upload endpoint.                                              *)
(***************************************************************************)
\* C28: however often the last chunk is uploaded, one after the other or
\* by overlapping requests, the match has at most one enhanced_analysis job.
C28_AtMostOneJob == jobs_rows <= 1

\* Two last-chunk requests were pending together and both were handled.
C28_Witness ==
    /\ last_uploads = 2
    /\ up_overlap
    /\ jobs_rows = 1

AllStored(total_chunks) == \A i \in 0 .. total_chunks - 1 : i \in chunk_files

\* C29: the match is 'uploaded' and its job queued only when chunks
\* 0..total-1 are all stored; video_chunks_uploaded never decreases and
\* never exceeds video_chunks_total; a rejected request changes nothing.
C29_UploadedAfterAllChunks ==
    [][/\ (match_row.upload_status = "uploaded" \/ jobs_rows > 0)' =>
             AllStored(match_row.video_chunks_total)'
       /\ match_row'.video_chunks_uploaded >= match_row.video_chunks_uploaded
       /\ match_row'.video_chunks_uploaded <= match_row'.video_chunks_total
       /\ up_response' = 400 /\ up_pending' = up_pending =>
             UNCHANGED <<chunk_files, match_row, jobs_rows>>]_vars

(***************************************************************************)
(* Jersey numbers.                                                         *)
(***************************************************************************)
GivenTo(t) == {jersey_first[t], jersey_last[t]} \ {0}

Taken(pool, free) == pool \ free

\* C30: no two trackers have been given the same number, a tracker keeps
\* the number it first received, and the numbers taken from a pool are its
\* lowest ones.
C30_UniqueStableLowestFirst ==
    /\ \A t1, t2 \in TrackerIds : t1 # t2 => GivenTo(t1) \cap GivenTo(t2) = {}
    /\ \A t \in TrackerIds : jersey_last[t] = jersey_first[t]
    /\ \A n \in Taken(TeamAPool, available_jerseys.team_a) :
          \A m \in TeamAPool : m < n => m \in Taken(TeamAPool, available_jerseys.team_a)
    /\ \A n \in Taken(TeamBPool, available_jerseys.team_b) :
          \A m \in TeamBPool : m < n => m \in Taken(TeamBPool, available_jerseys.team_b)
====
